---- MODULE Spec2Model ----
(***************************************************************************)
(* A model of the peer connection manager (class ExtensionBridge) of the   *)
(* browseagent MCP bridge: the handshake state machine of the peer-facing  *)
(* WebSocket listener, the correlation of delegated tool calls with their  *)
(* responses, the timers, and the sockets the bridge talks to.             *)
(*                                                                         *)
(* The handlers of the class are operators from a world (the bridge's      *)
(* fields, the sockets, the promises and the timers) to the world after    *)
(* the handler has run to completion; every action of the specification    *)
(* is one turn of the Node.js event loop.                                  *)
(***************************************************************************)
EXTENDS Integers, Sequences, FiniteSets, TLC

\* ------------------------------------------------------------------ bounds
MaxSockets == 2      \* sockets the peers may open over a run
MaxRequests == 2     \* delegated calls issued over a run
MaxCalls == 2        \* requests the client sends over a run
MaxFrames == 2       \* messages written to the client's pipe over a run
MaxChunk == 5        \* bytes of the shortest chunks a read of the pipe returns
MaxArgs == 3         \* entries of the arguments given to a validator
MaxConsumers == 2    \* consumers that hold the bridge at once

\* ------------------------------------------------------- program constants
BasePort == 8765
MaxRetries == 5
ConnectionTimeout == 1
PolicyViolation == 1008
NoStatusCode == 1005

\* The clock runs until the liveness threshold can have passed.
MaxTime == ConnectionTimeout + 2

NULL == 0
NoId == "<null>"

Sock == 1..MaxSockets
ReqIds == 1..MaxRequests
ExtIds == {"extA", "extB"}
CallIds == 1..MaxCalls

\* ------------------------------------------------------------ JSON values
\* A JSON value of a peer message field, by its JavaScript type.
Undef == [k |-> "undefined", s |-> ""]
Null == [k |-> "null", s |-> ""]
Obj == [k |-> "object", s |-> "{}"]
Str(x) == [k |-> "string", s |-> x]
Num(x) == [k |-> "number", s |-> x]
Bool(x) == [k |-> "boolean", s |-> x]
Arr == [k |-> "array", s |-> "[]"]

\* typeof v
TypeOf(v) == IF v.k \in {"object", "array", "null"} THEN "object" ELSE v.k

\* JavaScript truthiness, as used by `!message[field]`.
Truthy(v) ==
  \/ v.k \in {"object", "array"}
  \/ v.k = "boolean" /\ v.s = "true"
  \/ v.k = "string" /\ v.s # ""
  \/ v.k = "number" /\ v.s # "0"

\* ---------------------------------------------------------- tool registry
\* An argument value by its JavaScript type; a number is held in tenths (20 is 2.0).
ANum(n) == [k |-> "number", n |-> n]
AStr == [k |-> "string", n |-> 0]
ABool == [k |-> "boolean", n |-> 0]

\* The arguments of a call: the entries of the object in their order, or undefined.
Args(entries) == [given |-> TRUE, entries |-> entries]
NoArgs == [given |-> FALSE, entries |-> <<>>]
Arg(key, value) == [key |-> key, value |-> value]

\* A property of an input schema; minimum and maximum in tenths.
Prop(type) == [type |-> type, hasMin |-> FALSE, minimum |-> 0,
               hasMax |-> FALSE, maximum |-> 0]
Ranged(type, lo, hi) == [type |-> type, hasMin |-> TRUE, minimum |-> lo,
                         hasMax |-> TRUE, maximum |-> hi]
Schema(required, properties) == [required |-> required, properties |-> properties]

TabId == "tabId" :> Prop("number")
ElementRef == ("element" :> Prop("string")) @@ ("ref" :> Prop("string"))

\* A descriptor of the registry with a name that is not the one it was given.
ToolMisnamed(name, inputSchema) == [name |-> "tool", inputSchema |-> inputSchema]

\* A descriptor of the registry: { name, description, inputSchema }.
Tool(name, inputSchema) == [name |-> name, inputSchema |-> inputSchema]

\* The keys of MCP_TOOLS in the order of the object literal.
ToolKeys ==
  <<"browser_navigate", "browser_go_back", "browser_go_forward", "browser_wait",
    "browser_press_key", "browser_snapshot", "browser_click", "browser_drag_drop",
    "browser_hover", "browser_type", "browser_get_console_logs", "browser_screenshot">>

\* MCP_TOOLS: the descriptor of every tool of the registry, by its key.
MCP_TOOLS ==
  ("browser_navigate" :>
     Tool("browser_navigate", Schema(<<"url">>, ("url" :> Prop("string")) @@ TabId)))
  @@ ("browser_go_back" :> Tool("browser_go_back", Schema(<<>>, TabId)))
  @@ ("browser_go_forward" :> Tool("browser_go_forward", Schema(<<>>, TabId)))
  @@ ("browser_wait" :>
        Tool("browser_wait", Schema(<<"time">>, "time" :> Ranged("number", 1, 300))))
  @@ ("browser_press_key" :>
        Tool("browser_press_key", Schema(<<"key">>, ("key" :> Prop("string")) @@ TabId)))
  @@ ("browser_snapshot" :> Tool("browser_snapshot", Schema(<<>>, TabId)))
  @@ ("browser_click" :>
        Tool("browser_click", Schema(<<"element", "ref">>, ElementRef @@ TabId)))
  @@ ("browser_drag_drop" :>
        Tool("browser_drag_drop",
             Schema(<<"sourceElement", "sourceRef", "targetElement", "targetRef">>,
                    ("sourceElement" :> Prop("string")) @@ ("sourceRef" :> Prop("string"))
                    @@ ("targetElement" :> Prop("string"))
                    @@ ("targetRef" :> Prop("string")) @@ TabId)))
  @@ ("browser_hover" :>
        Tool("browser_hover", Schema(<<"element", "ref">>, ElementRef @@ TabId)))
  @@ ("browser_type" :>
        Tool("browser_type",
             Schema(<<"element", "ref", "text">>,
                    ElementRef @@ ("text" :> Prop("string"))
                    @@ ("submit" :> Prop("boolean")) @@ TabId)))
  @@ ("browser_get_console_logs" :> Tool("browser_get_console_logs", Schema(<<>>, TabId)))
  @@ ("browser_screenshot" :>
        Tool("browser_screenshot",
             Schema(<<>>, TabId @@ ("fullPage" :> Prop("boolean")) @@ ElementRef)))

\* getToolsList(), and the map of handleToolsList: the descriptors in the order
\* of Object.values(MCP_TOOLS).
getToolsList ==
  [i \in 1..Len(ToolKeys) |->
     [name |-> MCP_TOOLS[ToolKeys[i]].name,
      inputSchema |-> MCP_TOOLS[ToolKeys[i]].inputSchema]]

\* An error, by the fixed part of its message and the name the message ends in.
Err(e, f) == [e |-> e, f |-> f]
Ok == Err("", "")

\* `key in args`; with args undefined the operator throws a TypeError.
In(key, args) == \E i \in 1..Len(args.entries) : args.entries[i].key = key

\* The outcome of a call that has not been made.
NotCalled == Err("<not called>", "")

\* The first element of a sequence of checks that failed, Ok when none did.
RECURSIVE FirstError(_)
FirstError(checks) ==
  IF checks = <<>> THEN Ok
  ELSE IF Head(checks) # Ok THEN Head(checks)
  ELSE FirstError(Tail(checks))

\* The loop over schema.required of both validators.
missingRequired(schema, args, what) ==
  FirstError([i \in 1..Len(schema.required) |->
                IF In(schema.required[i], args) THEN Ok
                ELSE Err(what, schema.required[i])])

\* The type check of one entry of validateToolArguments.
basicTypeCheck(key, value, propSchema) ==
  IF propSchema.type \in {"number", "string", "boolean"} /\ value.k # propSchema.type
  THEN Err("must be a " \o propSchema.type, key)
  ELSE Ok

\* MCPServer.validateToolArguments(tool, args): Ok, or the error it throws.
validateToolArguments(tool, args) ==
  IF ~args.given THEN Err("TypeError", "")
  ELSE LET schema == tool.inputSchema
           missing == missingRequired(schema, args, "Missing required argument")
       IN IF missing # Ok THEN missing
          ELSE FirstError([i \in 1..Len(args.entries) |->
                 LET a == args.entries[i]
                 IN IF a.key \in DOMAIN schema.properties
                    THEN basicTypeCheck(a.key, a.value, schema.properties[a.key])
                    ELSE Ok])

\* validateProperty with bounds that exclude the minimum and the maximum.
validatePropertyExclusive(key, value, schema) ==
  IF schema.type \in {"number", "string", "boolean"} /\ value.k # schema.type
  THEN Err("must be a " \o schema.type, key)
  ELSE IF schema.type = "number" /\ schema.hasMin /\ value.n <= schema.minimum
  THEN Err("must be >= minimum", key)
  ELSE IF schema.type = "number" /\ schema.hasMax /\ value.n >= schema.maximum
  THEN Err("must be <= maximum", key)
  ELSE Ok

\* validateProperty(key, value, schema) of the tool registry.
validateProperty(key, value, schema) ==
  IF schema.type \in {"number", "string", "boolean"} /\ value.k # schema.type
  THEN Err("must be a " \o schema.type, key)
  ELSE IF schema.type = "number" /\ schema.hasMin /\ value.n < schema.minimum
  THEN Err("must be >= minimum", key)
  ELSE IF schema.type = "number" /\ schema.hasMax /\ value.n > schema.maximum
  THEN Err("must be <= maximum", key)
  ELSE Ok

\* validateToolArgs without the loop over the required fields.
validateToolArgsSkipsRequired(toolName, args) ==
  IF toolName \notin DOMAIN MCP_TOOLS THEN Err("Unknown tool", toolName)
  ELSE IF ~args.given THEN Err("TypeError", "")
  ELSE LET schema == MCP_TOOLS[toolName].inputSchema
       IN FirstError([i \in 1..Len(args.entries) |->
            LET a == args.entries[i]
            IN IF a.key \in DOMAIN schema.properties
               THEN validateProperty(a.key, a.value, schema.properties[a.key])
               ELSE Ok])

\* validateToolArgs(toolName, args) of the tool registry: Ok, or the error it throws.
validateToolArgs(toolName, args) ==
  IF toolName \notin DOMAIN MCP_TOOLS THEN Err("Unknown tool", toolName)
  ELSE IF ~args.given THEN Err("TypeError", "")
  ELSE LET schema == MCP_TOOLS[toolName].inputSchema
           missing == missingRequired(schema, args, "Missing required field")
       IN IF missing # Ok THEN missing
          ELSE FirstError([i \in 1..Len(args.entries) |->
                 LET a == args.entries[i]
                 IN IF a.key \in DOMAIN schema.properties
                    THEN validateProperty(a.key, a.value, schema.properties[a.key])
                    ELSE Ok])

\* MCPServer.toolRequiresExtension(toolName)
toolRequiresExtension(toolName) ==
  toolName \notin {"browser_wait", "ping", "system_info"}

\* ----------------------------------------------------------- tool results
\* The `content` of a result object: absent, an array of blocks, or something else.
NoContent == [k |-> "undefined", blocks |-> <<>>]
ContentArray(blocks) == [k |-> "array", blocks |-> blocks]
ContentString == [k |-> "string", blocks |-> <<>>]
ContentEmptyString == [k |-> "empty-string", blocks |-> <<>>]
TextBlock(text) == [type |-> "text", text |-> text]

\* A result by its JavaScript type, with its `content` if it is an object.
RUndef == [k |-> "undefined", content |-> NoContent]
RString == [k |-> "string", content |-> NoContent]
RObject(content) == [k |-> "object", content |-> content]
Results ==
  {RUndef, RString, RObject(NoContent), RObject(ContentArray(<<TextBlock("done")>>)),
   RObject(ContentString)}

\* The text formatToolResult puts into the block: the string itself, else
\* JSON.stringify(result, null, 2), which is undefined for undefined.
resultText(result) ==
  CASE result.k = "string" -> "the string"
    [] result.k = "undefined" -> "<no text>"
    [] OTHER -> "the JSON text"

\* MCPServer.formatToolResult(result)
formatToolResult(result) ==
  IF result.k = "object" /\ result.content.k \in {"array", "string"}
  THEN result
  ELSE RObject(ContentArray(<<TextBlock(resultText(result))>>))

\* --------------------------------------------------------- client messages
\* A message of the client; id 0 stands for a message without id.
\* `params` of a message that is not a tool call: "<no params>" when the message
\* has none, else the clientInfo of the params ("undefined" when they have none).
NoParams == "<no params>"
NoClient == "null"
NoClientInfo == "undefined"
ClientInfos == {"claude-desktop", "cursor"}

ClientMessage(id, method) ==
  [id |-> id, method |-> method, name |-> "", args |-> NoArgs, requestId |-> 0,
   params |-> NoParams]
InitializeRequest(id, params) == [ClientMessage(id, "initialize") EXCEPT !.params = params]
ToolsCall(id, name, args) ==
  [ClientMessage(id, "tools/call") EXCEPT !.name = name, !.args = args]
CancelledNotification(rid) ==
  [ClientMessage(0, "notifications/cancelled") EXCEPT !.requestId = rid]
NoReq == ClientMessage(0, "")

\* The code handleMessage gives every error it reports.
InternalError == -32603

\* A response to the client: the result, or the error's code and message.
Response(id, result) ==
  [id |-> id, kind |-> "result", code |-> 0, error |-> "", result |-> result]
ErrorResponse(id, message) ==
  [id |-> id, kind |-> "error", code |-> InternalError, error |-> message,
   result |-> RUndef]

\* -------------------------------------------------------- stdio framing
\* A text is a sequence of code points, a buffer a sequence of bytes.
Quote == 34
Backslash == 92
ReplacementChar == 65533

\* Buffer.from(str, 'utf8') of one code point (of the basic plane).
utf8Encode(c) ==
  IF c < 128 THEN <<c>>
  ELSE IF c < 2048 THEN <<192 + (c \div 64), 128 + (c % 64)>>
  ELSE <<224 + (c \div 4096), 128 + ((c \div 64) % 64), 128 + (c % 64)>>

\* Buffer.from(str, 'utf8'): the encodings of the code points, one after the
\* other (computed by halves).
RECURSIVE bufferFrom(_)
bufferFrom(str) ==
  IF str = <<>> THEN <<>>
  ELSE IF Len(str) = 1 THEN utf8Encode(str[1])
  ELSE LET h == Len(str) \div 2
       IN bufferFrom(SubSeq(str, 1, h)) \o bufferFrom(SubSeq(str, h + 1, Len(str)))

IsContinuation(b) == b >= 128 /\ b < 192

\* The places from the middle of a sequence on that satisfy a predicate given as
\* the set of places satisfying it.
FromMiddle(n, places) == {i \in ((n \div 2) + 1)..n : i \in places}
Least(S) == CHOOSE i \in S : \A j \in S : i <= j

\* buffer.toString('utf8'): an ill-formed sequence becomes U+FFFD. A byte that is
\* no continuation byte starts a character whatever precedes it, so a long buffer
\* is decoded in two parts that meet at such a byte.
RECURSIVE bufferToString(_)
bufferToString(buf) ==
  LET n == Len(buf)
      starts == FromMiddle(n, {i \in 2..n : ~IsContinuation(buf[i])})
  IN IF buf = <<>> THEN <<>>
     ELSE IF n > 4 /\ starts # {}
     THEN bufferToString(SubSeq(buf, 1, Least(starts) - 1))
            \o bufferToString(SubSeq(buf, Least(starts), n))
     ELSE LET b == Head(buf)
          IN IF b < 128 THEN <<b>> \o bufferToString(Tail(buf))
             ELSE IF b >= 192 /\ b < 224 /\ n >= 2 /\ IsContinuation(buf[2])
             THEN <<(b - 192) * 64 + (buf[2] - 128)>>
                    \o bufferToString(SubSeq(buf, 3, n))
             ELSE IF b >= 224 /\ b < 240 /\ n >= 3
                     /\ IsContinuation(buf[2]) /\ IsContinuation(buf[3])
             THEN <<(b - 224) * 4096 + (buf[2] - 128) * 64 + (buf[3] - 128)>>
                    \o bufferToString(SubSeq(buf, 4, n))
             ELSE <<ReplacementChar>> \o bufferToString(Tail(buf))

\* lengthBuffer.writeUInt32LE(n, 0)
writeUInt32LE(n) ==
  <<n % 256, (n \div 256) % 256, (n \div 65536) % 256, (n \div 16777216) % 256>>

\* buffer.readUInt32LE(0)
readUInt32LE(buf) == buf[1] + 256 * buf[2] + 65536 * buf[3] + 16777216 * buf[4]

\* A message of the transport: an object with one member, a string.
Message(text) == [m |-> text]

\* The text of a JSON string: '"' and the backslash escaped (computed by halves).
RECURSIVE escaped(_)
escaped(text) ==
  IF text = <<>> THEN <<>>
  ELSE IF Len(text) = 1
  THEN IF text[1] \in {Quote, Backslash} THEN <<Backslash, text[1]>> ELSE text
  ELSE LET h == Len(text) \div 2
       IN escaped(SubSeq(text, 1, h)) \o escaped(SubSeq(text, h + 1, Len(text)))

\* The characters between the quotes of a JSON string, unescaped, or not ok when
\* they are no such characters. A character that follows something else than a
\* backslash is not escaped, so a long string is read in two parts that meet there.
RECURSIVE unescaped(_)
unescaped(chars) ==
  LET n == Len(chars)
      fresh == FromMiddle(n, {i \in 2..n : chars[i - 1] # Backslash})
  IN IF chars = <<>> THEN [ok |-> TRUE, text |-> <<>>]
     ELSE IF n > 4 /\ fresh # {}
     THEN LET l == unescaped(SubSeq(chars, 1, Least(fresh) - 1))
              r == unescaped(SubSeq(chars, Least(fresh), n))
          IN [ok |-> l.ok /\ r.ok, text |-> l.text \o r.text]
     ELSE IF Head(chars) = Quote THEN [ok |-> FALSE, text |-> <<>>]
     ELSE IF Head(chars) = Backslash
     THEN IF n >= 2 /\ chars[2] \in {Quote, Backslash}
          THEN LET rest == unescaped(SubSeq(chars, 3, n))
               IN [ok |-> rest.ok, text |-> <<chars[2]>> \o rest.text]
          ELSE [ok |-> FALSE, text |-> <<>>]
     ELSE LET rest == unescaped(Tail(chars))
          IN [ok |-> rest.ok, text |-> <<Head(chars)>> \o rest.text]

\* {"m":" and "} around the string.
ObjectOpen == <<123, Quote, 109, Quote, 58, Quote>>
ObjectClose == <<Quote, 125>>

\* JSON.stringify(message)
JSONstringify(message) == ObjectOpen \o escaped(message.m) \o ObjectClose

\* JSON.parse(str): the message, or the SyntaxError it throws.
JSONparse(str) ==
  LET n == Len(str)
  IN IF n >= Len(ObjectOpen) + Len(ObjectClose)
        /\ SubSeq(str, 1, Len(ObjectOpen)) = ObjectOpen
        /\ SubSeq(str, n - 1, n) = ObjectClose
     THEN LET body == unescaped(SubSeq(str, Len(ObjectOpen) + 1, n - 2))
          IN [ok |-> body.ok, message |-> Message(body.text)]
     ELSE [ok |-> FALSE, message |-> Message(<<>>)]

\* StdioTransport.send(message): the length, then the text, written to stdout.
send(t, started, message) ==
  IF ~started THEN [t EXCEPT !.errors = @ + 1]
  ELSE LET messageBuffer == bufferFrom(JSONstringify(message))
           lengthBuffer == writeUInt32LE(Len(messageBuffer))
       IN [t EXCEPT !.pipe = @ \o lengthBuffer \o messageBuffer,
                    !.sent = Append(@, message)]

\* The while loop of handleStdinData over the complete messages of the buffer.
RECURSIVE processMessages(_)
processMessages(t) ==
  IF Len(t.messageBuffer) < 4 THEN t
  ELSE LET messageLength == readUInt32LE(t.messageBuffer)
       IN IF Len(t.messageBuffer) >= 4 + messageLength
          THEN LET messageData == SubSeq(t.messageBuffer, 5, 4 + messageLength)
                   rest == SubSeq(t.messageBuffer, 5 + messageLength,
                                  Len(t.messageBuffer))
                   parsed == JSONparse(bufferToString(messageData))
                   t1 == [t EXCEPT !.messageBuffer = rest]
               IN processMessages(IF parsed.ok
                                  THEN [t1 EXCEPT !.messages = Append(@, parsed.message)]
                                  ELSE [t1 EXCEPT !.errors = @ + 1])
          ELSE t

\* handleStdinData that decodes every chunk on its own, as if reads never split
\* a message.
handleStdinDataPerChunk(t, chunk) ==
  [processMessages([t EXCEPT !.messageBuffer = chunk]) EXCEPT !.messageBuffer = <<>>]

\* StdioTransport.handleStdinData(chunk)
handleStdinData(t, chunk) ==
  processMessages([t EXCEPT !.messageBuffer = @ \o chunk])

\* ------------------------------------------------------------------ state
VARIABLES
  readyState,           \* ws.readyState of every socket ("fresh": not yet connected)
  listeners,            \* which handlers a socket carries: "none", "pending", "admitted"
  closeCode,            \* the code of the close frame the server sent on a closing socket
  useWebSocket,         \* this.useWebSocket
  server,               \* this.server: "null", "listening", "closing", "failed"
  port,                 \* this.port
  isInitialized,        \* this.isInitialized
  heartbeatInterval,    \* this.heartbeatInterval is set (the interval timer runs)
  pendingConnections,   \* keys of this.pendingConnections (a connection id per socket)
  hsTimer,              \* the handshake timer of a connection is armed
  extensionSocket,      \* this.extensionSocket (NULL or a socket)
  activeExtensionId,    \* this.activeExtensionId (NoId or an id)
  registeredExtensions, \* this.registeredExtensions
  extensionManifests,   \* keys of this.extensionManifests
  lastHeartbeat,        \* this.lastHeartbeat (NULL or a time)
  requestId,            \* this.requestId
  pendingRequests,      \* keys of this.pendingRequests
  reqTimer,             \* the timeout timer of a delegated call is armed
  settleCount,          \* how often resolve/reject of a call's promise was invoked
  discPc,               \* where disconnect() stands: "idle" or "awaitServerClose"
  now,                  \* Date.now()
  flexibleMode,         \* MCPServer.flexibleMode
  wiring,               \* who listens to the bridge's events: "index" or "test"
  extensionAvailable,   \* MCPServer.extensionAvailable
  mcpPendingRequests,   \* keys of MCPServer.pendingRequests
  mcpIsInitialized,     \* MCPServer.isInitialized
  clientInfo,           \* MCPServer.clientInfo
  stdinEnded,           \* process.stdin has emitted 'end'
  answered,             \* how many responses the client was sent, by request id
  consumers,            \* the callers of initialize() that have not yet called disconnect()
  isStarted,            \* StdioTransport.isStarted
  caller,               \* the client request that awaits a delegated call (0: none)
  nextCall,             \* the id the client gives its next request
  cancelled,            \* the requests the client has cancelled
  isShuttingDown,       \* isShuttingDown of the entry point
  cleanupPc,            \* where cleanup() stands: "idle", "awaitDisconnect", "done"
  exited,               \* process.exit was called
  req,                  \* the client message handled in the last turn
  out,                  \* the messages sent to the client in the last turn
  ran,                  \* what a tools/call ran in the last turn: "", "local", "bridge"
  binds,                \* the ports tryStartServer was called with in the last turn
  stdio,                \* a transport's buffer and events, and the pipe that feeds it
  validation,           \* a call of validateToolArgs: its arguments and its outcome
  wire,                 \* the socket writes of the last turn of the event loop
  emitted,              \* the events emitted in the last turn
  settled,              \* the promises settled in the last turn, and how
  thrown                \* the error the last call threw ("" if none)

vars == <<readyState, listeners, closeCode, useWebSocket, server, port, isInitialized,
          heartbeatInterval, pendingConnections, hsTimer, extensionSocket,
          activeExtensionId, registeredExtensions, extensionManifests, lastHeartbeat,
          requestId, pendingRequests, reqTimer, settleCount, discPc, now,
          flexibleMode, wiring, extensionAvailable, mcpPendingRequests,
          mcpIsInitialized, clientInfo, stdinEnded, consumers, answered,
          isStarted,
          caller, nextCall, cancelled, isShuttingDown, cleanupPc, exited,
          req, out, ran, binds, stdio, validation, wire, emitted, settled, thrown>>

\* The fields of the bridge, of the protocol handler and of the entry point, and
\* the outputs of their last turn.
bridgeVars ==
  <<readyState, listeners, closeCode, useWebSocket, server, port, isInitialized,
    heartbeatInterval, pendingConnections, hsTimer, extensionSocket,
    activeExtensionId, registeredExtensions, extensionManifests, lastHeartbeat,
    requestId, pendingRequests, reqTimer, settleCount, discPc, now, flexibleMode,
    wiring, extensionAvailable, mcpPendingRequests, mcpIsInitialized, clientInfo,
    stdinEnded, consumers, answered,
    isStarted, caller, nextCall,
    cancelled, isShuttingDown, cleanupPc, exited, req, out, ran, binds, wire,
    emitted, settled, thrown>>

\* The world the handlers run in, with the outputs of the turn reset.
Cur ==
  [readyState |-> readyState, listeners |-> listeners, closeCode |-> closeCode,
   useWebSocket |-> useWebSocket, server |-> server, port |-> port,
   isInitialized |-> isInitialized, heartbeatInterval |-> heartbeatInterval,
   pendingConnections |-> pendingConnections, hsTimer |-> hsTimer,
   extensionSocket |-> extensionSocket, activeExtensionId |-> activeExtensionId,
   registeredExtensions |-> registeredExtensions,
   extensionManifests |-> extensionManifests, lastHeartbeat |-> lastHeartbeat,
   requestId |-> requestId, pendingRequests |-> pendingRequests, reqTimer |-> reqTimer,
   settleCount |-> settleCount, discPc |-> discPc, now |-> now,
   flexibleMode |-> flexibleMode, wiring |-> wiring,
   extensionAvailable |-> extensionAvailable,
   mcpPendingRequests |-> mcpPendingRequests,
   mcpIsInitialized |-> mcpIsInitialized, clientInfo |-> clientInfo,
   stdinEnded |-> stdinEnded, consumers |-> consumers, answered |-> answered,
   isStarted |-> isStarted,
   caller |-> caller, nextCall |-> nextCall, cancelled |-> cancelled,
   isShuttingDown |-> isShuttingDown, cleanupPc |-> cleanupPc, exited |-> exited,
   req |-> NoReq, out |-> <<>>, ran |-> "", binds |-> <<>>,
   wire |-> <<>>, emitted |-> <<>>, settled |-> {}, thrown |-> ""]

\* The world after a turn of the event loop; a process that has exited runs none.
Commit(w) ==
  /\ ~exited
  /\ readyState' = w.readyState
  /\ listeners' = w.listeners
  /\ closeCode' = w.closeCode
  /\ useWebSocket' = w.useWebSocket
  /\ server' = w.server
  /\ port' = w.port
  /\ isInitialized' = w.isInitialized
  /\ heartbeatInterval' = w.heartbeatInterval
  /\ pendingConnections' = w.pendingConnections
  /\ hsTimer' = w.hsTimer
  /\ extensionSocket' = w.extensionSocket
  /\ activeExtensionId' = w.activeExtensionId
  /\ registeredExtensions' = w.registeredExtensions
  /\ extensionManifests' = w.extensionManifests
  /\ lastHeartbeat' = w.lastHeartbeat
  /\ requestId' = w.requestId
  /\ pendingRequests' = w.pendingRequests
  /\ reqTimer' = w.reqTimer
  /\ settleCount' = w.settleCount
  /\ discPc' = w.discPc
  /\ now' = w.now
  /\ flexibleMode' = w.flexibleMode
  /\ wiring' = w.wiring
  /\ extensionAvailable' = w.extensionAvailable
  /\ mcpPendingRequests' = w.mcpPendingRequests
  /\ mcpIsInitialized' = w.mcpIsInitialized
  /\ clientInfo' = w.clientInfo
  /\ stdinEnded' = w.stdinEnded
  /\ consumers' = w.consumers
  /\ answered' = w.answered
  /\ isStarted' = w.isStarted
  /\ caller' = w.caller
  /\ nextCall' = w.nextCall
  /\ cancelled' = w.cancelled
  /\ isShuttingDown' = w.isShuttingDown
  /\ cleanupPc' = w.cleanupPc
  /\ exited' = w.exited
  /\ req' = w.req
  /\ out' = w.out
  /\ ran' = w.ran
  /\ binds' = w.binds
  /\ stdio' = stdio
  /\ validation' = validation
  /\ wire' = w.wire
  /\ emitted' = w.emitted
  /\ settled' = w.settled
  /\ thrown' = w.thrown

\* ------------------------------------------------------ sockets, promises
\* ws.send(data): the write, with the state the socket was in when written to.
wsSend(w, s, type, rid, info) ==
  [w EXCEPT !.wire = Append(@, [to |-> s, type |-> type, rid |-> rid, info |-> info,
                                state |-> w.readyState[s]])]

\* ws.close(code): starts the closing handshake of an open socket.
wsClose(w, s, code) ==
  IF w.readyState[s] = "open"
  THEN [w EXCEPT !.readyState[s] = "closing", !.closeCode[s] = code]
  ELSE w

\* MCPServer.setExtensionAvailable(available)
setExtensionAvailable(w, available) == [w EXCEPT !.extensionAvailable = available]

\* The module-level `server` of index.js: main() keeps the MCPServer in a local
\* `const server`, so the module's variable is null whenever a listener reads it.
ModuleServer == "null"

\* The listeners on 'extension-connected' and 'extension-disconnected': those of
\* setupExtensionBridge (index.js), or those of setupBridgeToServerCommunication
\* (tool.test.js), which hold the MCPServer itself.
notifyServer(w, available) ==
  IF w.wiring = "index" /\ ModuleServer = "null" THEN w
  ELSE setExtensionAvailable(w, available)

\* this.emit(event), with the listeners of the event run.
emit(w, event) ==
  LET w1 == [w EXCEPT !.emitted = Append(@, event)]
  IN CASE event = "extension-connected" -> notifyServer(w1, TRUE)
       [] event = "extension-disconnected" -> notifyServer(w1, FALSE)
       [] OTHER -> w1

\* StdioTransport.send(message): throws unless the transport is started.
transportSend(w, message) ==
  IF w.isStarted
  THEN [w EXCEPT !.out = Append(@, message),
                 !.answered = [c \in CallIds |-> IF c = message.id THEN @[c] + 1 ELSE @[c]]]
  ELSE [w EXCEPT !.thrown = "Transport not started"]

\* MCPServer.sendResponse(id, result)
sendResponse(w, id, result) == transportSend(w, Response(id, result))

\* MCPServer.sendError(id, error)
sendError(w, id, message) == transportSend(w, ErrorResponse(id, message))

\* What handleToolCall and handleMessage do once `await this.bridge.executeTool`
\* returns or throws: the formatted result, or the error 'Tool execution failed:
\* ...', goes to the client that sent the request.
toolCallSettled(w, id, how, value) ==
  IF w.caller[id] = 0 THEN w
  ELSE LET c == w.caller[id]
           w1 == [w EXCEPT !.caller[id] = 0]
       IN IF how = "resolved"
          THEN sendResponse(w1, c, formatToolResult(value))
          ELSE sendError(w1, c, "Tool execution failed: " \o how)

\* resolve(value) or reject(new Error(how)) of the promise executeTool returned;
\* every call is counted, and the code awaiting the promise goes on.
settleWith(w, id, how, value) ==
  toolCallSettled([w EXCEPT !.settleCount[id] = @ + 1,
                            !.settled = @ \cup {[id |-> id, how |-> how]}],
                  id, how, value)

\* reject(new Error(how))
settle(w, id, how) == settleWith(w, id, how, RUndef)

\* The reject stored in pendingRequests: clearTimeout, then reject.
storedSettle(w, id, how) == settle([w EXCEPT !.reqTimer[id] = FALSE], id, how)

\* The resolve stored in pendingRequests: clearTimeout, then resolve.
storedResolve(w, id, value) ==
  settleWith([w EXCEPT !.reqTimer[id] = FALSE], id, "resolved", value)

\* for (const [id, { reject }] of this.pendingRequests) reject(new Error(how))
RECURSIVE rejectEach(_, _, _)
rejectEach(w, ids, how) ==
  IF ids = {} THEN w
  ELSE LET id == CHOOSE i \in ids : \A j \in ids : i <= j
       IN rejectEach(storedSettle(w, id, how), ids \ {id}, how)

\* ------------------------------------------------- the peer-facing handlers
\* sendMessage(message): writes to the admitted socket, if there is one.
sendMessage(w, type, rid) ==
  IF w.extensionSocket = NULL THEN w
  ELSE wsSend(w, w.extensionSocket, type, rid, "")

\* sendToPendingConnection(connectionId, message)
sendToPendingConnection(w, c, type, info) ==
  IF c \notin w.pendingConnections THEN w
  ELSE wsSend(w, c, type, 0, info)

\* requiredFields of the challenge.
RequiredFields == "requiredFields: type, extensionId, version, capabilities"

\* handleConnection(ws, request): a socket was accepted by the listener.
handleConnection(w, c) ==
  LET w1 == [w EXCEPT !.pendingConnections = @ \cup {c},
                      !.listeners[c] = "pending",
                      !.hsTimer[c] = TRUE]
  IN sendToPendingConnection(w1, c, "connection-challenge", RequiredFields)

\* rejectConnection that leaves the entry in pendingConnections.
rejectConnectionKeepsEntry(w, c, reason) ==
  IF c \notin w.pendingConnections THEN w
  ELSE LET w1 == [w EXCEPT !.hsTimer[c] = FALSE]
           w2 == wsSend(w1, c, "connection-rejected", 0, reason)
       IN wsClose(w2, c, PolicyViolation)

\* rejectConnection that reports the rejected connection as a lost peer.
rejectConnectionAnnounces(w, c, reason) ==
  IF c \notin w.pendingConnections THEN w
  ELSE LET w1 == [w EXCEPT !.hsTimer[c] = FALSE]
           w2 == wsSend(w1, c, "connection-rejected", 0, reason)
           w3 == wsClose(w2, c, PolicyViolation)
       IN emit([w3 EXCEPT !.pendingConnections = @ \ {c}], "extension-disconnected")

\* rejectConnection that cleans up every pending connection with the rejected one.
rejectConnectionDropsAll(w, c, reason) ==
  IF c \notin w.pendingConnections THEN w
  ELSE LET w1 == [w EXCEPT !.hsTimer = [s \in Sock |-> FALSE]]
           w2 == wsSend(w1, c, "connection-rejected", 0, reason)
           w3 == wsClose(w2, c, PolicyViolation)
       IN [w3 EXCEPT !.pendingConnections = {}]

\* rejectConnection(connectionId, reason)
rejectConnection(w, c, reason) ==
  IF c \notin w.pendingConnections THEN w
  ELSE LET w1 == [w EXCEPT !.hsTimer[c] = FALSE]
           w2 == wsSend(w1, c, "connection-rejected", 0, reason)
           w3 == wsClose(w2, c, PolicyViolation)
       IN [w3 EXCEPT !.pendingConnections = @ \ {c}]

\* validateHandshake that only asks for the four fields to be present.
validateHandshakePresenceOnly(m) ==
  IF ~Truthy(Str(m.type)) THEN "Missing required field: type"
  ELSE IF ~Truthy(m.extensionId) THEN "Missing required field: extensionId"
  ELSE IF ~Truthy(m.version) THEN "Missing required field: version"
  ELSE IF ~Truthy(m.capabilities) THEN "Missing required field: capabilities"
  ELSE IF m.type # "handshake" THEN "Invalid message type"
  ELSE ""

\* validateHandshake(message): "" when valid, else the reason.
validateHandshake(m) ==
  IF ~Truthy(Str(m.type)) THEN "Missing required field: type"
  ELSE IF ~Truthy(m.extensionId) THEN "Missing required field: extensionId"
  ELSE IF ~Truthy(m.version) THEN "Missing required field: version"
  ELSE IF ~Truthy(m.capabilities) THEN "Missing required field: capabilities"
  ELSE IF m.type # "handshake" THEN "Invalid message type"
  ELSE IF TypeOf(m.extensionId) # "string" \/ m.extensionId.s = ""
  THEN "Invalid extensionId"
  ELSE IF TypeOf(m.version) # "string" \/ m.version.s = "" THEN "Invalid version"
  ELSE IF TypeOf(m.capabilities) # "object" \/ m.capabilities.k = "null"
  THEN "Invalid capabilities object"
  ELSE ""

\* disconnectExtension(extensionId)
disconnectExtension(w, extensionId) ==
  LET w1 == IF w.activeExtensionId = extensionId /\ w.extensionSocket # NULL
            THEN [wsClose(w, w.extensionSocket, NoStatusCode)
                    EXCEPT !.extensionSocket = NULL]
            ELSE w
  IN [w1 EXCEPT !.registeredExtensions = @ \ {extensionId},
                !.extensionManifests = @ \ {extensionId},
                !.activeExtensionId = IF @ = extensionId THEN NoId ELSE @]

\* acceptConnection that does not clear the handshake timer.
acceptConnectionKeepsTimer(w, c, m) ==
  IF c \notin w.pendingConnections THEN w
  ELSE LET extensionId == m.extensionId.s
           w1 == [w EXCEPT !.pendingConnections = @ \ {c},
                           !.extensionSocket = c,
                           !.lastHeartbeat = w.now,
                           !.activeExtensionId = extensionId,
                           !.registeredExtensions = @ \cup {extensionId},
                           !.extensionManifests = @ \cup {extensionId},
                           !.listeners[c] = "admitted"]
           w2 == sendMessage(w1, "handshake-response", 0)
       IN emit(emit(w2, "extension-connected"), "extension-registered")

\* acceptConnection(connectionId, handshakeMessage)
acceptConnection(w, c, m) ==
  IF c \notin w.pendingConnections THEN w
  ELSE LET extensionId == m.extensionId.s
           w1 == [w EXCEPT !.hsTimer[c] = FALSE,
                           !.pendingConnections = @ \ {c},
                           !.extensionSocket = c,
                           !.lastHeartbeat = w.now,
                           !.activeExtensionId = extensionId,
                           !.registeredExtensions = @ \cup {extensionId},
                           !.extensionManifests = @ \cup {extensionId},
                           !.listeners[c] = "admitted"]
           w2 == sendMessage(w1, "handshake-response", 0)
       IN emit(emit(w2, "extension-connected"), "extension-registered")

\* processHandshake that does not look for the pending entry first.
processHandshakeUnchecked(w, c, m) ==
  LET reason == validateHandshake(m)
  IN IF reason # ""
     THEN rejectConnection(w, c, "Handshake validation failed: " \o reason)
     ELSE LET w1 == IF m.extensionId.s \in w.registeredExtensions
                    THEN disconnectExtension(w, m.extensionId.s)
                    ELSE w
          IN acceptConnection(w1, c, m)

\* processHandshake(connectionId, handshakeMessage)
processHandshake(w, c, m) ==
  IF c \notin w.pendingConnections THEN w
  ELSE LET reason == validateHandshake(m)
       IN IF reason # ""
          THEN rejectConnection(w, c, "Handshake validation failed: " \o reason)
          ELSE LET w1 == IF m.extensionId.s \in w.registeredExtensions
                         THEN disconnectExtension(w, m.extensionId.s)
                         ELSE w
               IN acceptConnection(w1, c, m)

\* handlePendingMessage that logs a message of another type and leaves it at that.
handlePendingMessageIgnoresOthers(w, c, m) ==
  IF m.malformed THEN rejectConnection(w, c, "Invalid message format")
  ELSE IF m.type = "handshake" THEN processHandshake(w, c, m)
  ELSE w

\* handlePendingMessage(connectionId, data)
handlePendingMessage(w, c, m) ==
  IF m.malformed THEN rejectConnection(w, c, "Invalid message format")
  ELSE IF m.type = "handshake" THEN processHandshake(w, c, m)
  ELSE rejectConnection(w, c, "Invalid message sequence - expected handshake")

\* handlePendingDisconnection(connectionId)
handlePendingDisconnection(w, c) ==
  [w EXCEPT !.hsTimer[c] = IF c \in w.pendingConnections THEN FALSE ELSE @,
            !.pendingConnections = @ \ {c}]

\* handlePendingError(connectionId, error)
handlePendingError(w, c) == rejectConnection(w, c, "Connection error")

\* ------------------------------------------------ the admitted-peer handlers
\* handleToolResponse with the entry left in pendingRequests (the delete forgotten).
handleToolResponseKeepsEntry(w, m) ==
  IF m.requestId \in w.pendingRequests
  THEN IF m.success
       THEN storedResolve(w, m.requestId, m.result)
       ELSE storedSettle(w, m.requestId, "Tool execution failed")
  ELSE w

\* handleToolResponse that settles whatever id the response names.
handleToolResponseSettlesUnknown(w, m) ==
  LET w1 == [w EXCEPT !.pendingRequests = @ \ {m.requestId}]
  IN IF m.success
     THEN storedResolve(w1, m.requestId, m.result)
     ELSE storedSettle(w1, m.requestId, "Tool execution failed")

\* handleToolResponse that takes a response to answer the oldest pending call.
handleToolResponseInOrder(w, m) ==
  IF m.requestId \in w.pendingRequests
  THEN LET oldest == CHOOSE i \in w.pendingRequests : \A j \in w.pendingRequests : i <= j
           w1 == [w EXCEPT !.pendingRequests = @ \ {oldest}]
       IN IF m.success
          THEN storedResolve(w1, oldest, m.result)
          ELSE storedSettle(w1, oldest, "Tool execution failed")
  ELSE w

\* handleToolResponse(message)
handleToolResponse(w, m) ==
  IF m.requestId \in w.pendingRequests
  THEN LET w1 == [w EXCEPT !.pendingRequests = @ \ {m.requestId}]
       IN IF m.success
          THEN storedResolve(w1, m.requestId, m.result)
          ELSE storedSettle(w1, m.requestId, "Tool execution failed")
  ELSE w

\* handleExtensionDisconnect(message)
handleExtensionDisconnect(w, m) ==
  IF Truthy(m.extensionId) /\ m.extensionId.s \in w.registeredExtensions
  THEN LET extensionId == m.extensionId.s
           w1 == [w EXCEPT !.registeredExtensions = @ \ {extensionId},
                           !.extensionManifests = @ \ {extensionId},
                           !.activeExtensionId = IF @ = extensionId THEN NoId ELSE @]
       IN emit(w1, "extension-disconnected")
  ELSE w

\* handleHeartbeat(message)
handleHeartbeat(w) == sendMessage(w, "heartbeat-response", 0)

\* handleStatusUpdate(message)
handleStatusUpdate(w) == emit(w, "status-update")

\* handleMessage(data): a message on a socket that carries the admitted handlers.
handleMessage(w, m) ==
  IF m.malformed THEN w
  ELSE LET w1 == [w EXCEPT !.lastHeartbeat = w.now]
       IN CASE m.type = "disconnect" -> handleExtensionDisconnect(w1, m)
            [] m.type = "tool-response" -> handleToolResponse(w1, m)
            [] m.type = "heartbeat" -> handleHeartbeat(w1)
            [] m.type = "status" -> handleStatusUpdate(w1)
            [] OTHER -> w1

\* handleDisconnection that leaves extensionSocket pointing at the closed socket.
handleDisconnectionKeepsSocket(w) ==
  LET w1 == emit(w, "extension-disconnected")
      w2 == rejectEach(w1, w1.pendingRequests, "Extension disconnected")
  IN [w2 EXCEPT !.pendingRequests = {}]

\* handleDisconnection(code, reason): 'close' of a socket with the admitted handlers.
handleDisconnection(w) ==
  LET w1 == emit([w EXCEPT !.extensionSocket = NULL], "extension-disconnected")
      w2 == rejectEach(w1, w1.pendingRequests, "Extension disconnected")
  IN [w2 EXCEPT !.pendingRequests = {}]

\* handleError(error)
handleError(w) == emit(w, "error")

\* --------------------------------------------------------- delegated calls
\* executeTool with no timeout timer armed for the call.
executeToolNoTimer(w) ==
  IF w.extensionSocket = NULL
  THEN [w EXCEPT !.thrown = "Extension not connected"]
  ELSE LET id == w.requestId + 1
           w1 == [w EXCEPT !.requestId = id, !.pendingRequests = @ \cup {id}]
       IN sendMessage(w1, "tool-request", id)

\* executeTool without the check that a peer is admitted.
executeToolUnguarded(w) ==
  LET id == w.requestId + 1
      w1 == [w EXCEPT !.requestId = id,
                      !.reqTimer[id] = TRUE,
                      !.pendingRequests = @ \cup {id}]
  IN sendMessage(w1, "tool-request", id)

\* executeTool(toolName, args)
executeTool(w) ==
  IF w.extensionSocket = NULL
  THEN [w EXCEPT !.thrown = "Extension not connected"]
  ELSE LET id == w.requestId + 1
           w1 == [w EXCEPT !.requestId = id,
                           !.reqTimer[id] = TRUE,
                           !.pendingRequests = @ \cup {id}]
       IN sendMessage(w1, "tool-request", id)

\* The timeout callback without its pendingRequests.delete.
toolTimeoutKeepsEntry(w, id) ==
  settle([w EXCEPT !.reqTimer[id] = FALSE], id, "Tool execution timeout")

\* The timeout callback armed by executeTool.
toolTimeout(w, id) ==
  settle([w EXCEPT !.reqTimer[id] = FALSE, !.pendingRequests = @ \ {id}],
         id, "Tool execution timeout")

\* The interval callback dropping a peer it finds unresponsive.
heartbeatTickEvicts(w) ==
  IF w.extensionSocket = NULL THEN w
  ELSE LET w1 == sendMessage(w, "heartbeat", 0)
       IN IF w1.lastHeartbeat # NULL /\ (w1.now - w1.lastHeartbeat) > ConnectionTimeout
          THEN handleDisconnection(emit(w1, "extension-unresponsive"))
          ELSE w1

\* The interval callback of startHeartbeat.
heartbeatTick(w) ==
  IF w.extensionSocket = NULL THEN w
  ELSE LET w1 == sendMessage(w, "heartbeat", 0)
       IN IF w1.lastHeartbeat # NULL /\ (w1.now - w1.lastHeartbeat) > ConnectionTimeout
          THEN emit(w1, "extension-unresponsive")
          ELSE w1

\* -------------------------------------------------------- start and stop
\* What binding the port of the given attempt does: the first env.busy ports are
\* taken (EADDRINUSE), the next one binds or fails for another reason.
bindResult(env, attempt) == IF attempt < env.busy THEN "EADDRINUSE" ELSE env.final

\* tryStartServer(port): a new WebSocketServer is bound to the port; resolves on
\* 'listening', rejects with the error of the server.
tryStartServer(w, env, attempt) ==
  [w EXCEPT !.binds = Append(@, w.port + attempt),
            !.server = IF bindResult(env, attempt) = "ok" THEN "listening" ELSE "failed"]

\* startWebSocketServer that goes on to the next port after any error.
RECURSIVE startWebSocketServerRetriesAll(_, _, _)
startWebSocketServerRetriesAll(w, env, attempt) ==
  IF attempt >= MaxRetries
  THEN [w EXCEPT !.thrown = "Failed to start WebSocket server"]
  ELSE LET r == bindResult(env, attempt)
           w1 == tryStartServer(w, env, attempt)
       IN IF r = "ok"
          THEN [w1 EXCEPT !.port = w.port + attempt]
          ELSE startWebSocketServerRetriesAll(w1, env, attempt + 1)

\* startWebSocketServer(): the retry loop over tryStartServer(currentPort).
RECURSIVE startWebSocketServer(_, _, _)
startWebSocketServer(w, env, attempt) ==
  IF attempt >= MaxRetries
  THEN [w EXCEPT !.thrown = "Failed to start WebSocket server"]
  ELSE LET r == bindResult(env, attempt)
           w1 == tryStartServer(w, env, attempt)
       IN IF r = "ok"
          THEN [w1 EXCEPT !.port = w.port + attempt]
          ELSE IF r = "EADDRINUSE"
          THEN startWebSocketServer(w1, env, attempt + 1)
          ELSE [w1 EXCEPT !.thrown = r]

\* initialize()
initialize(w, env) ==
  IF w.isInitialized THEN w
  ELSE LET w1 == IF w.useWebSocket THEN startWebSocketServer(w, env, 0) ELSE w
       IN IF w1.thrown # "" THEN w1
          ELSE [w1 EXCEPT !.isInitialized = TRUE, !.heartbeatInterval = TRUE]

\* ws.close() of every pending connection, its handshake timer cleared.
RECURSIVE closePending(_, _)
closePending(w, cs) ==
  IF cs = {} THEN w
  ELSE LET c == CHOOSE i \in cs : \A j \in cs : i <= j
       IN closePending(wsClose([w EXCEPT !.hsTimer[c] = FALSE], c, NoStatusCode),
                       cs \ {c})

\* The rest of disconnect() with the request counter started over.
disconnectFinishResetsIds(w) ==
  LET w1 == rejectEach(w, w.pendingRequests, "Extension bridge disconnected")
  IN [w1 EXCEPT !.pendingRequests = {}, !.isInitialized = FALSE, !.discPc = "idle",
                !.server = "null", !.requestId = 0]

\* The rest of disconnect() that forgets the pending calls without rejecting
\* them.
disconnectFinishForgets(w) ==
  [w EXCEPT !.pendingRequests = {}, !.isInitialized = FALSE, !.discPc = "idle",
            !.server = "null"]

\* disconnect(), after the listener has closed: the rest of the method.
disconnectFinish(w) ==
  LET w1 == rejectEach(w, w.pendingRequests, "Extension bridge disconnected")
  IN [w1 EXCEPT !.pendingRequests = {}, !.isInitialized = FALSE, !.discPc = "idle",
                !.server = "null"]

\* A disconnect() that tears down only when no consumer is left.
disconnectAtZero(w) ==
  IF w.consumers > 0 THEN w
  ELSE LET w1 == [w EXCEPT !.heartbeatInterval = FALSE]
           w2 == IF w1.extensionSocket # NULL
                 THEN [wsClose(w1, w1.extensionSocket, NoStatusCode)
                         EXCEPT !.extensionSocket = NULL]
                 ELSE w1
           w3 == [closePending(w2, w2.pendingConnections)
                    EXCEPT !.pendingConnections = {}]
       IN IF w3.server # "null"
          THEN [w3 EXCEPT !.server = "closing", !.discPc = "awaitServerClose"]
          ELSE disconnectFinish(w3)

\* disconnect(), up to `await new Promise(... this.server.close ...)`; without a
\* server there is nothing to await and the method runs to its end.
disconnect(w) ==
  LET w1 == [w EXCEPT !.heartbeatInterval = FALSE]
      w2 == IF w1.extensionSocket # NULL
            THEN [wsClose(w1, w1.extensionSocket, NoStatusCode)
                    EXCEPT !.extensionSocket = NULL]
            ELSE w1
      w3 == [closePending(w2, w2.pendingConnections) EXCEPT !.pendingConnections = {}]
  IN IF w3.server # "null"
     THEN [w3 EXCEPT !.server = "closing", !.discPc = "awaitServerClose"]
     ELSE disconnectFinish(w3)

\* ------------------------------------------------------ the protocol handler
\* MCPServer.executeLocalTool(toolName, args): of the tools of the registry only
\* browser_wait is local; it waits args.time seconds and says so.
executeLocalTool(w, toolName, args) == RObject(ContentArray(<<TextBlock("Waited")>>))

\* The informational result of handleToolCall in flexible mode.
ExtensionRequired ==
  RObject(ContentArray(<<TextBlock("requires Chrome extension connection")>>))

\* handleToolCall that delegates whenever the tool needs the extension.
handleToolCallAlwaysDelegates(w, id, name, args) ==
  IF name \notin DOMAIN MCP_TOOLS THEN sendError(w, id, "Unknown tool")
  ELSE LET invalid == validateToolArguments(MCP_TOOLS[name], args)
       IN IF invalid # Ok THEN sendError(w, id, invalid.e)
          ELSE IF toolRequiresExtension(name)
          THEN LET w1 == executeTool([w EXCEPT !.ran = "bridge"])
               IN IF w1.thrown # ""
                  THEN sendError([w1 EXCEPT !.thrown = ""], id,
                                 "Tool execution failed: " \o w1.thrown)
                  ELSE [w1 EXCEPT !.caller[w1.requestId] = id]
          ELSE sendResponse([w EXCEPT !.ran = "local"], id,
                            formatToolResult(executeLocalTool(w, name, args)))

\* handleToolCall without validateToolArguments.
handleToolCallUnvalidated(w, id, name, args) ==
  IF name \notin DOMAIN MCP_TOOLS THEN sendError(w, id, "Unknown tool")
  ELSE IF toolRequiresExtension(name) /\ ~w.extensionAvailable /\ ~w.flexibleMode
  THEN sendError(w, id, "Tool execution failed: requires Chrome extension")
  ELSE IF toolRequiresExtension(name) /\ w.extensionAvailable
  THEN LET w1 == executeTool([w EXCEPT !.ran = "bridge"])
       IN IF w1.thrown # ""
          THEN sendError([w1 EXCEPT !.thrown = ""], id,
                         "Tool execution failed: " \o w1.thrown)
          ELSE [w1 EXCEPT !.caller[w1.requestId] = id]
  ELSE IF ~toolRequiresExtension(name)
  THEN sendResponse([w EXCEPT !.ran = "local"], id,
                    formatToolResult(executeLocalTool(w, name, args)))
  ELSE sendResponse(w, id, formatToolResult(ExtensionRequired))

\* MCPServer.handleToolCall(params), with what handleMessage sends for its result
\* or for the error it throws; a delegated call is answered when its promise is
\* settled (toolCallSettled).
handleToolCall(w, id, name, args) ==
  IF name \notin DOMAIN MCP_TOOLS THEN sendError(w, id, "Unknown tool")
  ELSE LET invalid == validateToolArguments(MCP_TOOLS[name], args)
           requiresExtension == toolRequiresExtension(name)
       IN IF invalid # Ok THEN sendError(w, id, invalid.e)
          ELSE IF requiresExtension /\ ~w.extensionAvailable /\ ~w.flexibleMode
          THEN sendError(w, id, "Tool execution failed: requires Chrome extension")
          ELSE IF requiresExtension /\ w.extensionAvailable
          THEN LET w1 == executeTool([w EXCEPT !.ran = "bridge"])
               IN IF w1.thrown # ""
                  THEN sendError([w1 EXCEPT !.thrown = ""], id,
                                 "Tool execution failed: " \o w1.thrown)
                  ELSE [w1 EXCEPT !.caller[w1.requestId] = id]
          ELSE IF ~requiresExtension
          THEN sendResponse([w EXCEPT !.ran = "local"], id,
                            formatToolResult(executeLocalTool(w, name, args)))
          ELSE sendResponse(w, id, formatToolResult(ExtensionRequired))

\* MCPServer.handleCancelledNotification(params)
handleCancelledNotification(w, rid) ==
  emit([w EXCEPT !.mcpPendingRequests = @ \ {rid}], "request-cancelled")

\* Whether `if (this.clientInfo)` takes the branch.
HasClient(w) == w.clientInfo \notin {NoClient, NoClientInfo}

\* MCP_PROTOCOL_VERSION
MCP_PROTOCOL_VERSION == "2024-11-05"

\* What handleInitialize returns: the protocol version, this.capabilities and
\* the serverInfo.
InitializeResult ==
  [k |-> "initialize", protocolVersion |-> MCP_PROTOCOL_VERSION,
   capabilities |-> {"tools", "resources", "prompts"},
   serverInfo |-> [name |-> "browseagent-mcp", version |-> "1.0.0"]]

\* The event 'client-connected' with the previousClient it carries.
ClientConnected(previousClient) == "client-connected previousClient=" \o previousClient

\* MCPServer.handleInitialize(params): the world after it and what it returns;
\* reading params.clientInfo throws a TypeError when the message has no params.
handleInitialize(w, params) ==
  IF params = NoParams
  THEN [w |-> [w EXCEPT !.thrown = "Cannot read properties of undefined"],
        result |-> RUndef]
  ELSE [w |-> emit([w EXCEPT !.clientInfo = params, !.mcpIsInitialized = TRUE],
                   ClientConnected(w.clientInfo)),
        result |-> InitializeResult]

\* MCPServer.handleInitializedNotification(params)
handleInitializedNotification(w) == emit(w, "client-initialized")

\* A tools/list that offers the peer's tools only while a peer is available.
handleToolsListAvailable(w) ==
  [w |-> w,
   result |-> [k |-> "tools",
               tools |-> IF w.extensionAvailable THEN getToolsList ELSE <<>>]]

\* MCPServer.handleToolsList(params): every tool of MCP_TOOLS.
handleToolsList(w) == [w |-> w, result |-> [k |-> "tools", tools |-> getToolsList]]

\* A ping that is passed on to the admitted peer.
handlePingProbes(w) ==
  [w |-> sendMessage(w, "heartbeat", 0),
   result |-> [k |-> "pong", pong |-> w.extensionSocket # NULL, timestamp |-> w.now]]

\* case 'ping' of handleMessage: { pong: true, timestamp: Date.now() }
handlePing(w) == [w |-> w, result |-> [k |-> "pong", pong |-> TRUE, timestamp |-> w.now]]

\* What handleMessage does with a handler's outcome: `if (id !== undefined) await
\* this.sendResponse(id, result)`, or in its catch `if (message.id !== undefined)
\* await this.sendError(message.id, ...)` with the message of the error thrown.
answerEveryMessage(r, id) ==
  IF r.w.thrown # "" THEN sendError([r.w EXCEPT !.thrown = ""], id, r.w.thrown)
  ELSE sendResponse(r.w, id, r.result)

answer(r, id) ==
  IF r.w.thrown # ""
  THEN IF id # 0 THEN sendError([r.w EXCEPT !.thrown = ""], id, r.w.thrown)
       ELSE [r.w EXCEPT !.thrown = ""]
  ELSE IF id # 0 THEN sendResponse(r.w, id, r.result)
       ELSE r.w

\* MCPServer.handleMessage(message) for a message isValidMCPMessage accepts: the
\* session methods, the tool methods and the default of the switch (the resource
\* and prompt methods are left out).
MCPServer_handleMessage(w, m) ==
  CASE m.method = "initialize" -> answer(handleInitialize(w, m.params), m.id)
    [] m.method = "notifications/initialized" -> handleInitializedNotification(w)
    [] m.method = "tools/list" -> answer(handleToolsList(w), m.id)
    [] m.method = "tools/call" -> handleToolCall(w, m.id, m.name, m.args)
    [] m.method = "notifications/cancelled" ->
         handleCancelledNotification(w, m.requestId)
    [] m.method = "ping" -> answer(handlePing(w), m.id)
    [] OTHER -> answer([w |-> [w EXCEPT !.thrown = "Unknown method: " \o m.method],
                        result |-> RUndef], m.id)

\* MCPServer.handleTransportClose(): 'close' of the transport.
handleTransportClose(w) ==
  LET w1 == IF HasClient(w)
            THEN [emit(w, "client-disconnected") EXCEPT !.clientInfo = NoClient]
            ELSE w
  IN emit([w1 EXCEPT !.mcpIsInitialized = FALSE], "transport-closed")

\* ------------------------------------------------------------ the entry point
\* MCPServer.shutdown(): drops the client, stops the transport (whose 'close'
\* runs handleTransportClose) and clears the session.
shutdown(w) ==
  LET w1 == IF HasClient(w)
            THEN [emit(w, "client-disconnected") EXCEPT !.clientInfo = NoClient]
            ELSE w
      w2 == IF w1.isStarted THEN handleTransportClose([w1 EXCEPT !.isStarted = FALSE])
            ELSE w1
  IN [w2 EXCEPT !.mcpPendingRequests = {}, !.mcpIsInitialized = FALSE]

\* process.exit(code)
processExit(w) == [w EXCEPT !.exited = TRUE]

\* cleanup() after `await bridge.disconnect()`, and the process.exit that follows
\* `await cleanup()` in the signal handler.
cleanupFinish(w) ==
  LET w1 == IF ModuleServer # "null" THEN shutdown(w) ELSE w
  IN processExit([w1 EXCEPT !.cleanupPc = "done"])

\* cleanup() up to `await bridge.disconnect()`, and beyond if there is nothing to
\* wait for.
cleanup(w) ==
  LET w1 == disconnect([w EXCEPT !.isShuttingDown = TRUE])
  IN IF w1.discPc = "awaitServerClose"
     THEN [w1 EXCEPT !.cleanupPc = "awaitDisconnect"]
     ELSE cleanupFinish(w1)

\* The handler of SIGINT and SIGTERM: await cleanup(); process.exit(0). A cleanup
\* that finds isShuttingDown set returns at once.
onSignal(w) == IF w.isShuttingDown THEN processExit(w) ELSE cleanup(w)

\* The handler of uncaughtException and unhandledRejection.
onFatalError(w) == IF w.isShuttingDown THEN w ELSE cleanup(w)

\* What runs when disconnect() has returned: the cleanup() that awaited it.
disconnectAwaited(w) == IF w.cleanupPc = "awaitDisconnect" THEN cleanupFinish(w) ELSE w

\* ----------------------------------------------------------- peer messages
Msg(type) ==
  [malformed |-> FALSE, type |-> type, extensionId |-> Undef, version |-> Undef,
   capabilities |-> Undef, requestId |-> 0, success |-> FALSE, result |-> RUndef]

Handshake(e, v, c) ==
  [Msg("handshake") EXCEPT !.extensionId = e, !.version = v, !.capabilities = c]

\* The well-formed handshakes, and one handshake per way of being ill-formed.
Handshakes ==
  { Handshake(Str(e), Str("1.0.0"), Obj) : e \in ExtIds }
    \cup { Handshake(Undef, Str("1.0.0"), Obj), Handshake(Num("7"), Str("1.0.0"), Obj),
           Handshake(Str("extA"), Undef, Obj), Handshake(Str("extA"), Num("1"), Obj),
           Handshake(Str("extA"), Str("1.0.0"), Null) }

\* The results a peer puts into its responses; what the result looks like
\* matters once a client awaits a call.
Answers == IF \E id \in ReqIds : caller[id] # 0 THEN Results ELSE {RUndef}

ToolResponses ==
  { [Msg("tool-response") EXCEPT !.requestId = r, !.success = TRUE, !.result = v] :
      r \in ReqIds, v \in Answers }
    \cup { [Msg("tool-response") EXCEPT !.requestId = r] : r \in ReqIds }

Disconnects ==
  { [Msg("disconnect") EXCEPT !.extensionId = e] :
      e \in {Str("extA"), Str("extB"), Undef} }

Malformed == [Msg("") EXCEPT !.malformed = TRUE]

\* What a peer sends on a connection that has not been admitted: a handshake, or
\* something else (a message of another type, or bytes that are no JSON).
PendingInputs ==
  Handshakes \cup {Msg("heartbeat"), Malformed}
    \cup {[Msg("tool-response") EXCEPT !.requestId = 1, !.success = TRUE]}

\* What a peer sends on a socket that carries the admitted handlers. A message of
\* type 'error' stands for every message that is only logged (an unknown type too).
AdmittedInputs ==
  ToolResponses \cup Disconnects
    \cup {Msg("heartbeat"), Msg("status"), Msg("error"), Malformed}

\* The answers of the operating system to the binds of initialize(): the number of
\* ports in use from the configured one on, and what binding the next one does.
\* An initialized bridge binds nothing.
BindAnswers ==
  IF isInitialized THEN {[busy |-> 0, final |-> "ok"]}
  ELSE [busy : 0..MaxRetries, final : {"ok", "EACCES"}]

\* The values a caller gives a property: numbers around the bounds of a ranged
\* one, else a value of the declared type; and a value of another type.
ValuesFor(p) ==
  IF p.hasMin \/ p.hasMax
  THEN {ANum(n) : n \in {p.minimum - 11, p.minimum - 1, p.minimum, 20,
                         p.maximum, p.maximum + 1, p.maximum + 10}} \cup {AStr}
  ELSE CASE p.type = "number" -> {ANum(7), AStr}
         [] p.type = "string" -> {AStr, ANum(7)}
         [] OTHER -> {ABool, AStr}

\* The entries a caller may give a tool: its properties and one it does not have.
EntriesFor(schema) ==
  UNION {{Arg(k, v) : v \in ValuesFor(schema.properties[k])} :
           k \in DOMAIN schema.properties}
    \cup {Arg("extra", AStr)}

\* The argument objects of up to MaxArgs entries, in every order of the keys.
ArgsFor(schema) ==
  {Args(e) : e \in {f \in UNION {[1..n -> EntriesFor(schema)] : n \in 0..MaxArgs} :
                       \A i, j \in DOMAIN f : i # j => f[i].key # f[j].key}}

\* No call of the validator has been made or asked for.
NoValidation == [toolName |-> "", args |-> NoArgs, outcome |-> NotCalled]

\* The calls of validateToolArgs: every tool with every argument object, and a
\* tool the registry does not have.
Validations ==
  UNION {{[toolName |-> k, args |-> a, outcome |-> NotCalled] :
            a \in ArgsFor(MCP_TOOLS[k].inputSchema)} : k \in DOMAIN MCP_TOOLS}
    \cup {[toolName |-> "no_such_tool", args |-> Args(<<>>), outcome |-> NotCalled]}

\* ---------------------------------------------------------------- actions
\* The bridge after its construction.
BridgeInit ==
  /\ readyState = [s \in Sock |-> "fresh"]
  /\ listeners = [s \in Sock |-> "none"]
  /\ closeCode = [s \in Sock |-> 0]
  /\ useWebSocket \in BOOLEAN
  /\ server = "null"
  /\ port = BasePort
  /\ isInitialized = FALSE
  /\ consumers = 0
  /\ heartbeatInterval = FALSE
  /\ pendingConnections = {}
  /\ hsTimer = [s \in Sock |-> FALSE]
  /\ extensionSocket = NULL
  /\ activeExtensionId = NoId
  /\ registeredExtensions = {}
  /\ extensionManifests = {}
  /\ lastHeartbeat = NULL
  /\ requestId = 0
  /\ pendingRequests = {}
  /\ reqTimer = [i \in ReqIds |-> FALSE]
  /\ settleCount = [i \in ReqIds |-> 0]
  /\ discPc = "idle"
  /\ now = 1
  /\ binds = <<>>
  /\ wire = <<>>
  /\ emitted = <<>>
  /\ settled = {}
  /\ thrown = ""

\* The protocol handler and its transport after start(), no request received.
ServerInit ==
  /\ extensionAvailable = FALSE
  /\ mcpPendingRequests = {}
  /\ mcpIsInitialized = FALSE
  /\ clientInfo = NoClient
  /\ stdinEnded = FALSE
  /\ answered = [c \in CallIds |-> 0]
  /\ isStarted = TRUE
  /\ caller = [i \in ReqIds |-> 0]
  /\ nextCall = 1
  /\ cancelled = {}
  /\ isShuttingDown = FALSE
  /\ cleanupPc = "idle"
  /\ exited = FALSE
  /\ req = NoReq
  /\ out = <<>>
  /\ ran = ""
  /\ stdio = [messageBuffer |-> <<>>, pipe |-> <<>>, sent |-> <<>>, messages |-> <<>>,
              errors |-> 0]

\* The bridge as the entry point builds it.
Init ==
  /\ BridgeInit
  /\ ServerInit
  /\ flexibleMode = TRUE
  /\ wiring = "index"
  /\ validation = NoValidation

\* The bridge and the protocol handler, composed as the entry point composes them
\* (flexible mode, the listeners of index.js) or as the tool tester does (strict
\* mode, its own listeners).
HostInit ==
  /\ BridgeInit
  /\ ServerInit
  /\ wiring \in {"index", "test"}
  /\ flexibleMode = (wiring = "index")
  /\ useWebSocket
  /\ validation = NoValidation

\* bridge.initialize(), with what the operating system answers to the binds; the
\* listener's port moves at most maxDrift ports up from the configured one.
InitializeWithin(maxDrift) ==
  /\ discPc = "idle"
  /\ \E env \in BindAnswers :
       LET w == initialize(Cur, env)
       IN /\ w.port <= BasePort + maxDrift
          /\ Commit(w)

\* bridge.initialize() where the configured port is free or no port can be bound.
Initialize == InitializeWithin(0)

\* bridge.disconnect() is called.
Disconnect ==
  /\ discPc = "idle"
  /\ Commit(disconnect(Cur))

\* The listener has closed: disconnect() resumes after its await.
DisconnectResume ==
  /\ discPc = "awaitServerClose"
  /\ Commit(disconnectAwaited(disconnectFinish(Cur)))

\* A peer connects to the listener: 'connection' on the server.
Connect(s) ==
  /\ server = "listening"
  /\ readyState[s] = "fresh"
  /\ \A t \in Sock : t < s => readyState[t] # "fresh"
  /\ Commit(handleConnection([Cur EXCEPT !.readyState[s] = "open"], s))

\* 'message' on a socket: the listeners it carries decide the handler.
PeerMessage(s, m) ==
  /\ readyState[s] \in {"open", "closing"}
  /\ listeners[s] # "none"
  /\ m \in (IF listeners[s] = "pending" THEN PendingInputs ELSE AdmittedInputs)
  /\ Commit(IF listeners[s] = "pending"
            THEN handlePendingMessage(Cur, s, m)
            ELSE handleMessage(Cur, m))

\* A peer sends one of the messages its socket's listeners may get.
PeerSends(s) ==
  \E m \in (IF listeners[s] = "pending" THEN PendingInputs ELSE AdmittedInputs) :
    PeerMessage(s, m)

\* 'close' on a socket: the peer went away, or the closing handshake ended. It is the
\* last event of the socket, which is dropped with its listeners afterwards.
SocketClose(s) ==
  /\ readyState[s] \in {"open", "closing"}
  /\ LET w == [Cur EXCEPT !.readyState[s] = "closed"]
         w1 == IF listeners[s] = "pending" THEN handlePendingDisconnection(w, s)
               ELSE IF listeners[s] = "admitted" THEN handleDisconnection(w)
               ELSE w
     IN Commit([w1 EXCEPT !.listeners[s] = "none", !.closeCode[s] = 0])

\* 'error' on a socket.
SocketError(s) ==
  /\ readyState[s] \in {"open", "closing"}
  /\ listeners[s] # "none"
  /\ Commit(IF listeners[s] = "pending" THEN handlePendingError(Cur, s)
            ELSE handleError(Cur))

\* The handshake timer of a connection fires.
HandshakeTimeout(s) ==
  /\ hsTimer[s]
  /\ Commit(rejectConnection([Cur EXCEPT !.hsTimer[s] = FALSE], s, "Handshake timeout"))

\* bridge.executeTool(toolName, args) is called.
ExecuteTool ==
  /\ requestId < MaxRequests
  /\ Commit(executeTool(Cur))

\* The timeout timer of a delegated call fires.
ToolTimeout(id) ==
  /\ reqTimer[id]
  /\ Commit(toolTimeout(Cur, id))

\* The heartbeat interval fires.
HeartbeatTick ==
  /\ heartbeatInterval
  /\ Commit(heartbeatTick(Cur))

\* Time passes.
Tick ==
  /\ now < MaxTime
  /\ now' = now + 1
  /\ UNCHANGED <<readyState, listeners, closeCode, useWebSocket, server, port,
                 isInitialized, heartbeatInterval, pendingConnections, hsTimer,
                 extensionSocket, activeExtensionId, registeredExtensions,
                 extensionManifests, lastHeartbeat, requestId, pendingRequests,
                 reqTimer, settleCount, discPc, flexibleMode, wiring,
                 extensionAvailable, mcpPendingRequests, mcpIsInitialized,
                 clientInfo, stdinEnded, consumers, answered, isStarted, caller,
                 nextCall,
                 cancelled, isShuttingDown, cleanupPc, exited, req, out, ran,
                 binds, stdio, validation, wire, emitted, settled, thrown>>

Next ==
  \/ Initialize
  \/ Disconnect
  \/ DisconnectResume
  \/ \E s \in Sock : Connect(s)
  \/ \E s \in Sock : PeerSends(s)
  \/ \E s \in Sock : SocketClose(s)
  \/ \E s \in Sock : SocketError(s)
  \/ \E s \in Sock : HandshakeTimeout(s)
  \/ ExecuteTool
  \/ \E id \in ReqIds : ToolTimeout(id)
  \/ HeartbeatTick

\* The bridge with all its events happening at one instant of the clock.
Spec == Init /\ [][Next]_vars

\* The bridge with time passing between its events.
TimedSpec == Init /\ [][Next \/ Tick]_vars

\* The farthest the listener's port moves from the configured one in one start.
MaxDrift == MaxRetries - 1

\* bridge.initialize() with any number of the ports in use.
InitializeAnyPort == InitializeWithin(MaxDrift)

\* The bridge started and stopped while other processes hold ports, with the
\* peers that connect to the listener it ends up with.
PortNext ==
  \/ InitializeAnyPort
  \/ Disconnect
  \/ DisconnectResume
  \/ \E s \in Sock : Connect(s)
  \/ \E s \in Sock : PeerSends(s)
  \/ \E s \in Sock : SocketClose(s)
  \/ HeartbeatTick

PortSpec == Init /\ [][PortNext]_vars

\* The values a peer may put into a field of its handshake.
FieldValues ==
  {Undef, Null, Obj, Arr, Bool("true"), Bool("false"), Num("0"), Num("7"), Str(""),
   Str("1.0.0")} \cup {Str(e) : e \in ExtIds}

\* Messages of type 'handshake' made of these values: one field holds any of
\* them beside two well-formed ones, or all three hold the same.
AnyHandshakes ==
  {Handshake(e, Str("1.0.0"), Obj) : e \in FieldValues}
    \cup {Handshake(Str(e), v, Obj) : e \in ExtIds, v \in FieldValues}
    \cup {Handshake(Str(e), Str("1.0.0"), c) : e \in ExtIds, c \in FieldValues}
    \cup {Handshake(f, f, f) : f \in FieldValues}

\* A peer sends a handshake, whatever its fields hold, on a socket that carries
\* the pending handlers.
PeerOffers(s) ==
  /\ readyState[s] \in {"open", "closing"}
  /\ listeners[s] = "pending"
  /\ \E m \in AnyHandshakes : Commit(handlePendingMessage(Cur, s, m))

\* The bridge and the peers that ask for admission.
AdmissionNext ==
  \/ Initialize
  \/ \E s \in Sock : Connect(s)
  \/ \E s \in Sock : PeerOffers(s)
  \/ \E s \in Sock : SocketClose(s)
  \/ \E s \in Sock : HandshakeTimeout(s)

AdmissionSpec == Init /\ [][AdmissionNext]_vars

\* A consumer takes the bridge into use: it calls bridge.initialize(), which
\* returns at once when the bridge is initialized already.
Acquire ==
  /\ discPc = "idle"
  /\ consumers < MaxConsumers
  /\ \E env \in BindAnswers :
       LET w == initialize(Cur, env)
       IN /\ w.port = BasePort
          /\ Commit([w EXCEPT !.consumers = IF w.thrown = "" THEN @ + 1 ELSE @])

\* A consumer is done with the bridge: it calls bridge.disconnect().
Release ==
  /\ discPc = "idle"
  /\ consumers > 0
  /\ Commit(disconnect([Cur EXCEPT !.consumers = @ - 1]))

\* The bridge used by several consumers, with its peers and their calls.
SharingNext ==
  \/ Acquire
  \/ Release
  \/ DisconnectResume
  \/ \E s \in Sock : Connect(s)
  \/ \E s \in Sock : PeerSends(s)
  \/ \E s \in Sock : SocketClose(s)
  \/ ExecuteTool
  \/ HeartbeatTick

SharingSpec == Init /\ [][SharingNext]_vars

\* The texts of the messages written: empty, one byte, characters of two and
\* three bytes next to characters that are escaped, and a text that makes the
\* message longer than 255 bytes.
LongText == [i \in 1..250 |-> IF i % 50 = 0 THEN 8364 ELSE 97]
Texts == {<<>>, <<97>>, <<233, Quote>>, <<8364, Backslash>>, LongText}

\* transport.send(message) of a transport whose stdout is the pipe.
Send ==
  /\ Len(stdio.sent) < MaxFrames
  /\ \E text \in Texts : stdio' = send(stdio, isStarted, Message(text))
  /\ UNCHANGED <<bridgeVars, validation>>

\* 'data' on stdin: a read returns the next bytes of the pipe, a few of them or
\* all there are.
StdinData ==
  /\ stdio.pipe # <<>>
  /\ \E n \in (1..MaxChunk) \cup {Len(stdio.pipe)} :
       /\ n <= Len(stdio.pipe)
       /\ stdio' = handleStdinData([stdio EXCEPT !.pipe = SubSeq(@, n + 1, Len(@))],
                                   SubSeq(stdio.pipe, 1, n))
  /\ UNCHANGED <<bridgeVars, validation>>

FramingNext == Send \/ StdinData

\* A transport reading what a transport writes.
FramingSpec == Init /\ [][FramingNext]_vars

\* A caller about to validate the arguments of a tool.
RegistryInit ==
  /\ BridgeInit
  /\ ServerInit
  /\ flexibleMode = TRUE
  /\ wiring = "index"
  /\ useWebSocket
  /\ validation \in Validations

\* validateToolArgs(toolName, args) is called.
Validate ==
  /\ validation.outcome = NotCalled
  /\ validation' = [validation EXCEPT
                      !.outcome = validateToolArgs(validation.toolName, validation.args)]
  /\ UNCHANGED <<bridgeVars, stdio>>

\* The tool registry and its validator.
RegistrySpec == RegistryInit /\ [][Validate]_vars

\* The bridge with its timers firing: a timer that stays armed fires eventually
\* (setTimeout of the handshake timer and of the timeout of a delegated call).
LiveSpec ==
  /\ Spec
  /\ \A id \in ReqIds : WF_vars(ToolTimeout(id))
  /\ \A s \in Sock : WF_vars(HandshakeTimeout(s))

\* What the client asks for: calls the validators accept, and calls with a
\* required field missing, a field of the wrong type, a number out of the range
\* of its schema, no arguments at all, or a tool the registry does not have.
ToolInputs ==
  { [name |-> "browser_navigate", args |-> Args(<<Arg("url", AStr)>>)],
    [name |-> "browser_navigate", args |-> Args(<<>>)],
    [name |-> "browser_navigate", args |-> Args(<<Arg("url", ANum(5))>>)],
    [name |-> "browser_navigate", args |-> NoArgs],
    [name |-> "browser_wait", args |-> Args(<<Arg("time", ANum(20))>>)],
    [name |-> "browser_wait", args |-> Args(<<Arg("time", ANum(0))>>)],
    [name |-> "browser_wait", args |-> Args(<<Arg("time", ANum(1000))>>)],
    [name |-> "browser_wait", args |-> Args(<<Arg("time", AStr)>>)],
    [name |-> "no_such_tool", args |-> Args(<<>>)] }

\* The client sends tools/call with the next id: 'message' of the transport.
ClientToolsCall ==
  /\ isStarted /\ ~stdinEnded
  /\ nextCall <= MaxCalls
  /\ \E t \in ToolInputs :
       LET m == ToolsCall(nextCall, t.name, t.args)
           w == MCPServer_handleMessage([Cur EXCEPT !.req = m, !.nextCall = @ + 1], m)
       IN /\ w.requestId <= MaxRequests
          /\ Commit(w)

\* The client cancels a request it has no answer to: notifications/cancelled.
ClientCancels(c) ==
  /\ isStarted /\ ~stdinEnded
  /\ c \notin cancelled
  /\ \E id \in ReqIds : caller[id] = c
  /\ LET m == CancelledNotification(c)
     IN Commit([MCPServer_handleMessage([Cur EXCEPT !.req = m], m)
                  EXCEPT !.cancelled = @ \cup {c}])

\* SIGINT or SIGTERM is delivered to the process.
Signal ==
  /\ isShuttingDown \/ discPc = "idle"
  /\ Commit(onSignal(Cur))

\* An uncaught exception or an unhandled rejection is reported to the process.
FatalError ==
  /\ isShuttingDown \/ discPc = "idle"
  /\ Commit(onFatalError(Cur))

\* The events of the process: the peers, the timers, the client and the signals.
HostNext ==
  \/ Initialize
  \/ DisconnectResume
  \/ \E s \in Sock : Connect(s)
  \/ \E s \in Sock : PeerSends(s)
  \/ \E s \in Sock : SocketClose(s)
  \/ \E s \in Sock : SocketError(s)
  \/ \E s \in Sock : HandshakeTimeout(s)
  \/ \E id \in ReqIds : ToolTimeout(id)
  \/ HeartbeatTick
  \/ ClientToolsCall
  \/ \E c \in CallIds : ClientCancels(c)
  \/ Signal
  \/ FatalError

\* The bridge composed with the protocol handler, the client and the signals.
HostSpec == HostInit /\ [][HostNext]_vars

\* ------------------------------------------------------------ the session
\* What a client may send as the params of initialize.
InitializeParams == ClientInfos \cup {NoClientInfo, NoParams}

\* Methods the switch of handleMessage has no case for.
UnknownMethods == {"tools/run", "shutdown"}

\* The id of a client message: the next id, or none.
IdOf(withId) == IF withId THEN nextCall ELSE 0

\* A message of the client arrives: 'message' of the transport.
Receive(m) ==
  /\ isStarted /\ ~stdinEnded
  /\ m.id # 0 => nextCall <= MaxCalls
  /\ Commit(MCPServer_handleMessage(
              [Cur EXCEPT !.req = m, !.nextCall = IF m.id # 0 THEN @ + 1 ELSE @], m))

\* The client sends initialize.
ClientInitialize ==
  \E params \in InitializeParams : Receive(InitializeRequest(nextCall, params))

\* The client sends notifications/initialized.
ClientInitialized == Receive(ClientMessage(0, "notifications/initialized"))

\* The client sends tools/list, as a request or as a notification.
ClientToolsList == \E withId \in BOOLEAN : Receive(ClientMessage(IdOf(withId), "tools/list"))

\* The client sends ping, as a request or as a notification.
ClientPing == \E withId \in BOOLEAN : Receive(ClientMessage(IdOf(withId), "ping"))

\* The client sends a method the server does not know, with or without an id.
ClientUnknown ==
  \E withId \in BOOLEAN, method \in UnknownMethods :
    Receive(ClientMessage(IdOf(withId), method))

\* The client closes its end: 'end' of stdin, which the transport reports as
\* 'close'.
TransportClose ==
  /\ isStarted /\ ~stdinEnded
  /\ Commit(handleTransportClose([Cur EXCEPT !.stdinEnded = TRUE]))

\* The events of a session: the client's session methods and tool calls, and the
\* peers that connect, answer and leave meanwhile.
SessionNext ==
  \/ Initialize
  \/ \E s \in Sock : Connect(s)
  \/ \E s \in Sock : PeerSends(s)
  \/ \E s \in Sock : SocketClose(s)
  \/ HeartbeatTick
  \/ ClientToolsCall
  \/ ClientInitialize
  \/ ClientInitialized
  \/ ClientToolsList
  \/ ClientPing
  \/ ClientUnknown
  \/ TransportClose

\* The protocol handler serving a client's session beside the bridge.
SessionSpec == HostInit /\ [][SessionNext]_vars

\* The events of a client's session with the calls it delegates, cancels and
\* waits for in vain.
ClientNext ==
  \/ SessionNext
  \/ \E id \in ReqIds : ToolTimeout(id)
  \/ \E c \in CallIds : ClientCancels(c)

\* The protocol handler serving every request of its client.
ClientSpec == HostInit /\ [][ClientNext]_vars

\* ------------------------------------------------------------ observations
Emitted == {emitted[i] : i \in 1..Len(emitted)}
Written == {wire[i] : i \in 1..Len(wire)}
Sent(s, type) == \E m \in Written : m.to = s /\ m.type = type
AdmittedOpen == {s \in Sock : readyState[s] = "open" /\ listeners[s] = "admitted"}
Rejected(ids, how) == {[id |-> i, how |-> how] : i \in ids}

\* ----------------------------------------------------------------- claims

\* C1: at most one peer is admitted at any time: at most one open socket carries
\* the admitted-peer handlers and registeredExtensions holds at most one id.
C1_AtMostOneAdmittedPeer ==
  /\ Cardinality(AdmittedOpen) <= 1
  /\ Cardinality(registeredExtensions) <= 1

\* C2: when the socket of a peer that was evicted by a newer admission closes, the
\* session of the admitted peer is untouched: extensionSocket keeps its value, no
\* extension-disconnected is emitted and no pending call is rejected.
C2_EvictedCloseLeavesSuccessor ==
  [][\A s \in Sock :
       (/\ listeners[s] = "admitted"
        /\ readyState[s] = "closing"
        /\ extensionSocket \notin {NULL, s}
        /\ SocketClose(s))
       => /\ extensionSocket' = extensionSocket
          /\ "extension-disconnected" \notin Emitted'
          /\ pendingRequests' = pendingRequests
          /\ settled' = {}]_vars

\* C3: the promise of a delegated call is settled at most once (so a second
\* tool-response for its id settles nothing), and a settled call is no longer in
\* pendingRequests and its timeout timer is no longer armed.
C3_SettledAtMostOnce ==
  /\ \A id \in ReqIds :
       /\ settleCount[id] <= 1
       /\ settleCount[id] = 1 => (id \notin pendingRequests /\ ~reqTimer[id])
  /\ \A e \in settled : settleCount[e.id] = 1 /\ e.id \notin pendingRequests

\* C3 witness: one call was just resolved by its response while the other call
\* is still pending.
C3_Witness ==
  /\ settled = {[id |-> 1, how |-> "resolved"]}
  /\ settleCount[1] = 1
  /\ pendingRequests = {2}

\* C4: a call stored in pendingRequests has its timeout timer armed, every issued
\* call is pending or settled, and every pending call is eventually settled.
C4_PendingEventuallySettled ==
  /\ [](\A id \in ReqIds :
          /\ id \in pendingRequests => reqTimer[id]
          /\ id <= requestId => (id \in pendingRequests \/ settleCount[id] >= 1))
  /\ \A id \in ReqIds : (id \in pendingRequests) ~> (settleCount[id] >= 1)

\* C4 witness: a call whose peer was lost without a close event (the peer was
\* evicted or deregistered) was settled by its timeout with no peer admitted.
C4_Witness ==
  /\ settled = {[id |-> 1, how |-> "Tool execution timeout"]}
  /\ extensionSocket = NULL
  /\ isInitialized

\* C5: when the socket of the admitted peer closes with calls outstanding, each of
\* them is rejected with 'Extension disconnected', pendingRequests becomes empty,
\* extensionSocket becomes null and nothing is written in that turn; and no
\* message is ever written to a socket that has closed.
C5_PeerLossRejectsAll ==
  /\ [][\A s \in Sock :
          (s = extensionSocket /\ pendingRequests # {} /\ SocketClose(s))
          => /\ settled' = Rejected(pendingRequests, "Extension disconnected")
             /\ \A id \in pendingRequests : settleCount'[id] = 1 /\ ~reqTimer'[id]
             /\ pendingRequests' = {}
             /\ extensionSocket' = NULL
             /\ wire' = <<>>]_vars
  /\ [](\A m \in Written : m.state # "closed")
  /\ [](extensionSocket # NULL => readyState[extensionSocket] = "open")

\* C5 witness: two outstanding calls were just rejected by the close of the
\* admitted socket.
C5_Witness ==
  /\ settled = Rejected({1, 2}, "Extension disconnected")
  /\ pendingRequests = {}
  /\ extensionSocket = NULL
  /\ "extension-disconnected" \in Emitted

\* C6: an explicit 'disconnect' message of the admitted peer moves the manager to
\* NoPeer (extensionSocket null), rejects every pending call and emits
\* extension-disconnected.
C6_DisconnectMessageDropsPeer ==
  [][\A s \in Sock, m \in Disconnects :
       (/\ s = extensionSocket
        /\ Truthy(m.extensionId)
        /\ m.extensionId.s = activeExtensionId
        /\ PeerMessage(s, m))
       => /\ extensionSocket' = NULL
          /\ pendingRequests' = {}
          /\ settled' = Rejected(pendingRequests, "Extension disconnected")
          /\ "extension-disconnected" \in Emitted']_vars

\* C7: executeTool with no peer admitted throws at once: no entry is added to
\* pendingRequests, no request id is taken, no timer is armed, nothing is written
\* to any socket and no promise is settled.
C7_NoPeerFailsImmediately ==
  [][(extensionSocket = NULL /\ ExecuteTool)
     => /\ thrown' = "Extension not connected"
        /\ pendingRequests' = pendingRequests
        /\ requestId' = requestId
        /\ reqTimer' = reqTimer
        /\ wire' = <<>>
        /\ settled' = {}]_vars

\* C7 witness: the call threw while the listener had a connection open that was
\* not admitted.
C7_Witness ==
  /\ thrown = "Extension not connected"
  /\ extensionSocket = NULL
  /\ pendingConnections # {}
  /\ requestId = 0

\* C8: when the handshake timer of a pending connection fires, the connection is
\* sent connection-rejected, closed by the server and removed from
\* pendingConnections, and extensionSocket, activeExtensionId and
\* registeredExtensions keep their values; a rejected connection never carries
\* the admitted handlers and is never extensionSocket.
C8_HandshakeTimeoutRejects ==
  /\ [][\A s \in Sock :
          (s \in pendingConnections /\ HandshakeTimeout(s))
          => /\ wire' = <<[to |-> s, type |-> "connection-rejected", rid |-> 0,
                           info |-> "Handshake timeout", state |-> "open"]>>
             /\ readyState'[s] = "closing"
             /\ closeCode'[s] = PolicyViolation
             /\ s \notin pendingConnections'
             /\ extensionSocket' = extensionSocket
             /\ activeExtensionId' = activeExtensionId
             /\ registeredExtensions' = registeredExtensions
             /\ emitted' = <<>>]_vars
  /\ [](\A s \in Sock :
          closeCode[s] = PolicyViolation
          => (listeners[s] # "admitted" /\ extensionSocket # s
              /\ s \notin pendingConnections))

\* C8 witness: a connection was just rejected by its handshake timer while a peer
\* is admitted on another socket.
C8_Witness ==
  /\ \E m \in Written : m.type = "connection-rejected" /\ m.info = "Handshake timeout"
  /\ extensionSocket # NULL
  /\ registeredExtensions # {}

\* C9: a first message on a pending connection that is no handshake (another type,
\* or no JSON) gets the connection rejected and closed with code 1008, its entry
\* and handshake timer discarded, and is not processed as a message of the
\* admitted peer: it settles no call and does not touch lastHeartbeat.
C9_NonHandshakeFirstMessageRejected ==
  [][\A s \in Sock, m \in PendingInputs :
       (/\ s \in pendingConnections
        /\ (m.malformed \/ m.type # "handshake")
        /\ PeerMessage(s, m))
       => /\ Sent(s, "connection-rejected")'
          /\ readyState'[s] = "closing"
          /\ closeCode'[s] = PolicyViolation
          /\ s \notin pendingConnections'
          /\ ~hsTimer'[s]
          /\ settled' = {}
          /\ settleCount' = settleCount
          /\ pendingRequests' = pendingRequests
          /\ lastHeartbeat' = lastHeartbeat
          /\ extensionSocket' = extensionSocket]_vars

\* C9 witness: a pending connection was just rejected for sending something else
\* than a handshake while call 1 is pending, and call 1 is still pending.
C9_Witness ==
  /\ \E m \in Written :
       /\ m.type = "connection-rejected"
       /\ m.info = "Invalid message sequence - expected handshake"
  /\ 1 \in pendingRequests
  /\ settleCount[1] = 0

\* C10: a pending connection has its handshake timer armed and is not the admitted
\* peer, an admitted connection is not pending and its handshake timer is not
\* armed, and every pending connection eventually leaves pendingConnections.
C10_PendingConnectionLeaves ==
  /\ [](\A s \in Sock :
          /\ s \in pendingConnections
             => (hsTimer[s] /\ listeners[s] = "pending" /\ extensionSocket # s)
          /\ listeners[s] = "admitted" => (~hsTimer[s] /\ s \notin pendingConnections)
          /\ hsTimer[s] => s \in pendingConnections)
  /\ \A s \in Sock : (s \in pendingConnections) ~> (s \notin pendingConnections)

\* C10 witness: one connection was promoted, its timer cleared, while another
\* connection is still pending.
C10_Witness ==
  \E s, p \in Sock :
    /\ extensionSocket = s
    /\ listeners[s] = "admitted"
    /\ ~hsTimer[s]
    /\ p \in pendingConnections
    /\ "extension-connected" \in Emitted

\* ------------------------------------------------ claims on the tool calls
\* The client message of the last turn is a tools/call.
IsToolsCall == req.method = "tools/call"

\* The tools/call of the last turn names a tool of the registry and its arguments
\* pass validateToolArguments.
CallAccepted ==
  /\ IsToolsCall
  /\ req.name \in DOMAIN MCP_TOOLS
  /\ validateToolArguments(MCP_TOOLS[req.name], req.args) = Ok

\* The last turn sent one error response, for the request of that turn, and ran
\* nothing.
AnsweredWithErrorOnly ==
  /\ Len(out) = 1
  /\ out[1].id = req.id
  /\ out[1].kind = "error"
  /\ ran = ""

\* No socket was ever accepted by the listener.
NoPeerEver == \A s \in Sock : readyState[s] = "fresh"

\* C11: a tools/call for a tool that requires the extension, made while no peer has
\* ever connected, is answered with an error in strict mode and with the text block
\* saying that the extension must be connected in flexible mode; in both modes
\* executeTool is not invoked, no request id is taken and nothing is written to a
\* socket.
C11_ColdCallWithoutPeer ==
  (CallAccepted /\ toolRequiresExtension(req.name) /\ NoPeerEver)
  => /\ out = <<IF flexibleMode
                THEN Response(req.id, ExtensionRequired)
                ELSE ErrorResponse(req.id,
                                   "Tool execution failed: requires Chrome extension")>>
     /\ ran = ""
     /\ wire = <<>>
     /\ requestId = 0
     /\ pendingRequests = {}

\* C11 witness: in strict mode, with the listener up and no peer connected, a call
\* of browser_navigate was just answered with an error.
C11_Witness ==
  /\ CallAccepted /\ req.name = "browser_navigate" /\ NoPeerEver
  /\ ~flexibleMode
  /\ server = "listening"
  /\ Len(out) = 1 /\ out[1].kind = "error"

\* C12: a tools/call that names no tool of the registry, or whose arguments fail
\* validateToolArguments, is answered with one error response and has no other
\* effect: nothing runs locally, executeTool is not called, nothing is written to a
\* socket, no promise is settled, and pendingRequests, requestId and the admitted
\* peer keep their values.
C12_InvalidCallHasNoEffect ==
  [][(IsToolsCall' /\ ~CallAccepted')
     => /\ AnsweredWithErrorOnly'
        /\ wire' = <<>>
        /\ settled' = {}
        /\ pendingRequests' = pendingRequests
        /\ requestId' = requestId
        /\ reqTimer' = reqTimer
        /\ caller' = caller
        /\ extensionSocket' = extensionSocket
        /\ activeExtensionId' = activeExtensionId
        /\ registeredExtensions' = registeredExtensions
        /\ extensionAvailable' = extensionAvailable]_vars

\* C12 witness: with a peer admitted, the flag set and a delegated call pending, a
\* browser_navigate without its url was just answered with an error.
C12_Witness ==
  /\ IsToolsCall /\ req.name = "browser_navigate" /\ req.args = Args(<<>>)
  /\ AnsweredWithErrorOnly
  /\ extensionAvailable /\ extensionSocket # NULL
  /\ pendingRequests = {1}

\* C13: tools/call accepts exactly the arguments validateToolArgs of the registry
\* accepts, and a call validateToolArgs refuses (a number outside [minimum, maximum]
\* too) is answered with an error before anything runs.
C13_CallValidationIsCatalogValidation ==
  IsToolsCall
  => /\ CallAccepted <=> validateToolArgs(req.name, req.args) = Ok
     /\ validateToolArgs(req.name, req.args) # Ok => AnsweredWithErrorOnly

\* C14: with the listeners of the entry point, once an admission or loss event of
\* the bridge has been processed, extensionAvailable is true exactly when the
\* bridge has an admitted peer.
C14_FlagFollowsPeer ==
  (wiring = "index"
   /\ Emitted \cap {"extension-connected", "extension-disconnected"} # {})
  => (extensionAvailable <=> extensionSocket # NULL)

\* The envelope the client is to get for a result of the peer: the result itself if
\* it has a content array, else the result wrapped into one text block.
Envelope(result) ==
  IF result.k = "object" /\ result.content.k = "array" THEN result
  ELSE RObject(ContentArray(<<TextBlock(resultText(result))>>))

\* C15: with a peer admitted and extensionAvailable set, a valid tools/call for a
\* delegated tool writes exactly one tool-request to the admitted socket, with a
\* request id that was never used; and when the peer answers that id with success,
\* the client gets the result in the content envelope: unchanged if it has a
\* content array, else wrapped into a single text block.
C15_DelegatedRoundTrip ==
  /\ [][(/\ CallAccepted' /\ toolRequiresExtension(req'.name)
         /\ extensionAvailable /\ extensionSocket # NULL)
        => /\ wire' = <<[to |-> extensionSocket, type |-> "tool-request",
                         rid |-> requestId + 1, info |-> "", state |-> "open"]>>
           /\ requestId' = requestId + 1
           /\ requestId + 1 \notin pendingRequests
           /\ settleCount[requestId + 1] = 0
           /\ pendingRequests' = pendingRequests \cup {requestId + 1}
           /\ caller'[requestId + 1] = req'.id
           /\ out' = <<>>]_vars
  /\ [][\A s \in Sock, m \in ToolResponses :
          (/\ s = extensionSocket
           /\ m.success
           /\ m.requestId \in pendingRequests
           /\ caller[m.requestId] # 0
           /\ PeerMessage(s, m))
          => out' = <<Response(caller[m.requestId], Envelope(m.result))>>]_vars

\* C16: the ids executeTool gives out grow by one per call and are never given out
\* twice: every id that is pending, or whose promise was settled, or whose timer is
\* armed, is at most requestId, the id given out last, and is pending or settled;
\* so the next id, requestId + 1, is none of them, whatever happened to the peer
\* and the bridge in between.
C16_RequestIdsFresh ==
  \A id \in ReqIds :
    /\ (id \in pendingRequests \/ settleCount[id] >= 1 \/ reqTimer[id])
       => id <= requestId
    /\ id <= requestId => (id \in pendingRequests \/ settleCount[id] = 1)

\* C16 witness: call 1 was settled, the socket of the first peer has closed, a
\* second peer was admitted and the call sent to it got id 2.
C16_Witness ==
  /\ requestId = 2
  /\ pendingRequests = {2}
  /\ settleCount[1] = 1
  /\ readyState[1] = "closed"
  /\ extensionSocket = 2
  /\ Sent(2, "tool-request")

\* A step that settles no promise, leaves pendingRequests and the admitted peer as
\* they are, and throws, emits and writes nothing.
NothingHappens ==
  /\ settled' = {}
  /\ settleCount' = settleCount
  /\ pendingRequests' = pendingRequests
  /\ reqTimer' = reqTimer
  /\ extensionSocket' = extensionSocket
  /\ activeExtensionId' = activeExtensionId
  /\ registeredExtensions' = registeredExtensions
  /\ thrown' = ""
  /\ emitted' = <<>>
  /\ wire' = <<>>
  /\ out' = <<>>

\* C17: a tool-response whose requestId is not in pendingRequests is ignored: no
\* promise is settled, pendingRequests and the admitted peer keep their values,
\* nothing is thrown, emitted or written to a socket. (Stated contrapositively: a
\* step in which any of this happens is not the handling of such a response.)
C17_UnknownResponseIgnored ==
  [][~NothingHappens
     => \A s \in Sock :
          listeners[s] = "admitted"
          => \A m \in ToolResponses :
               m.requestId \notin pendingRequests => ~PeerMessage(s, m)]_vars

\* C17 witness: call 1 was settled before (a response for it is now unknown), call
\* 2 is pending, a peer is admitted, and the last turn settled, wrote and emitted
\* nothing.
C17_Witness ==
  /\ settleCount[1] = 1 /\ 1 \notin pendingRequests
  /\ pendingRequests = {2} /\ reqTimer[2]
  /\ extensionSocket # NULL /\ listeners[extensionSocket] = "admitted"
  /\ settled = {} /\ wire = <<>> /\ emitted = <<>> /\ thrown = ""

\* C18: when the timeout of a delegated call fires, the call is rejected with the
\* timeout error, its entry leaves pendingRequests, and the client that awaits it
\* gets an error response; a settled call is never pending and awaited by nobody,
\* so a response that arrives after the timeout names an unknown id, and such a
\* response settles nothing and sends the client nothing (a step that settles or
\* sends something is not the handling of such a response).
C18_TimeoutRejectsCall ==
  /\ [][\A id \in ReqIds :
          (id \in pendingRequests /\ caller[id] # 0 /\ ToolTimeout(id))
          => /\ settled' = {[id |-> id, how |-> "Tool execution timeout"]}
             /\ id \notin pendingRequests'
             /\ ~reqTimer'[id]
             /\ caller'[id] = 0
             /\ out' = <<ErrorResponse(caller[id],
                           "Tool execution failed: Tool execution timeout")>>]_vars
  /\ [](\A id \in ReqIds :
          settleCount[id] >= 1 => (id \notin pendingRequests /\ caller[id] = 0))
  /\ [][(settled' # {} \/ out' # <<>> \/ pendingRequests' # pendingRequests)
        => \A s \in Sock :
             listeners[s] = "admitted"
             => \A m \in ToolResponses :
                  m.requestId \notin pendingRequests => ~PeerMessage(s, m)]_vars

\* C18 witness: the client was just sent the timeout error for its request 1 while
\* the peer is still admitted.
C18_Witness ==
  /\ out = <<ErrorResponse(1, "Tool execution failed: Tool execution timeout")>>
  /\ settled = {[id |-> 1, how |-> "Tool execution timeout"]}
  /\ extensionSocket # NULL
  /\ 1 \notin pendingRequests

\* C19: once the client has cancelled a request, a response of the peer for the
\* delegated call of that request settles nothing, and no result for the
\* cancelled request is sent to the client.
C19_CancelledGetsNoResult ==
  /\ \A i \in 1..Len(out) : out[i].kind = "result" => out[i].id \notin cancelled
  /\ (\E e \in settled : e.how \in {"resolved", "Tool execution failed"})
     => \A i \in 1..Len(out) : out[i].id \notin cancelled

\* C20: when the process has exited after a termination signal, the teardown is
\* complete: every pending delegated call was rejected, the peer socket and the
\* listener are closed, and the client transport is stopped.
C20_ExitAfterTeardown ==
  exited
  => /\ pendingRequests = {}
     /\ \A id \in ReqIds : caller[id] = 0 /\ ~reqTimer[id]
     /\ extensionSocket = NULL
     /\ pendingConnections = {}
     /\ server = "null"
     /\ ~isStarted

\* The ports port, port + 1, ... of the first n attempts.
PortsFrom(p, n) == [i \in 1..n |-> p + i - 1]

Unresponsive == "extension-unresponsive" \in Emitted

\* A delegated call made now, and the peer's answer to it.
CallNow == executeTool(Cur)
AnswerNow ==
  handleMessage([CallNow EXCEPT !.wire = <<>>, !.settled = {}],
                [Msg("tool-response") EXCEPT !.requestId = CallNow.requestId,
                                             !.success = TRUE])

C23_FramingRoundTrip ==
  /\ stdio.errors = 0
  /\ Len(stdio.messages) <= Len(stdio.sent)
  /\ stdio.messages = SubSeq(stdio.sent, 1, Len(stdio.messages))
  /\ stdio.pipe = <<>> => stdio.messages = stdio.sent /\ stdio.messageBuffer = <<>>

\* C23 witness: two messages, one of them longer than 255 bytes and one with
\* characters of several bytes, have been received; the buffer is empty.
C23_Witness ==
  /\ Len(stdio.messages) = 2
  /\ stdio.pipe = <<>> /\ stdio.messageBuffer = <<>>
  /\ \E i \in 1..2 : stdio.messages[i] = Message(LongText)
  /\ \E i \in 1..2 : stdio.messages[i] = Message(<<8364, Backslash>>)

\* A call of validateToolArgs for a tool of the registry has returned or thrown.
Validated ==
  /\ validation.outcome # NotCalled
  /\ validation.toolName \in DOMAIN MCP_TOOLS
  /\ validation.args.given
ValidatedSchema == MCP_TOOLS[validation.toolName].inputSchema
Given == {validation.args.entries[i] : i \in 1..Len(validation.args.entries)}

\* The places of the required list whose field the arguments lack.
MissingPlaces ==
  {i \in 1..Len(ValidatedSchema.required) :
     \A a \in Given : a.key # ValidatedSchema.required[i]}

\* C24: validateToolArgs called with arguments that lack a required field throws
\* 'Missing required field: <field>' for the first such field of the required
\* list; when it accepts the arguments, every required field is among them.
C24_RequiredFields ==
  Validated
    => /\ MissingPlaces # {}
            => validation.outcome =
                 Err("Missing required field",
                     ValidatedSchema.required[Least(MissingPlaces)])
       /\ validation.outcome = Ok => MissingPlaces = {}

\* C24 witness: browser_click was called with `element` but without `ref`, and
\* the error names `ref`.
C24_Witness ==
  /\ Validated
  /\ validation.toolName = "browser_click"
  /\ \E a \in Given : a.key = "element"
  /\ validation.outcome = Err("Missing required field", "ref")

\* The entries of the arguments the validator finds nothing wrong with: a property
\* the schema does not declare, or a value of the declared type within its bounds.
Within(a) ==
  LET p == ValidatedSchema.properties[a.key]
  IN a.key \in DOMAIN ValidatedSchema.properties
       => /\ a.value.k = p.type
          /\ p.hasMin => a.value.n >= p.minimum
          /\ p.hasMax => a.value.n <= p.maximum

\* The numbers given for a property that declares a minimum and a maximum.
RangedNumbers ==
  {a \in Given : /\ a.key \in DOMAIN ValidatedSchema.properties
                 /\ ValidatedSchema.properties[a.key].hasMin
                 /\ ValidatedSchema.properties[a.key].hasMax
                 /\ a.value.k = "number"}

\* C25: the bounds of a number are inclusive. Arguments are accepted only if every
\* such number lies in [minimum, maximum]; with nothing else wrong, a number equal
\* to the minimum or the maximum is accepted, one below the minimum is refused
\* with 'must be >= minimum' and one above the maximum with 'must be <= maximum'.
C25_InclusiveBounds ==
  Validated
    => \A a \in RangedNumbers :
         LET p == ValidatedSchema.properties[a.key]
             othersFine == MissingPlaces = {} /\ \A b \in Given \ {a} : Within(b)
         IN /\ validation.outcome = Ok
                 => a.value.n >= p.minimum /\ a.value.n <= p.maximum
            /\ (othersFine /\ a.value.n \in {p.minimum, p.maximum})
                 => validation.outcome = Ok
            /\ (othersFine /\ a.value.n < p.minimum)
                 => validation.outcome = Err("must be >= minimum", a.key)
            /\ (othersFine /\ a.value.n > p.maximum)
                 => validation.outcome = Err("must be <= maximum", a.key)

\* C25 witness: browser_wait was called with time equal to the maximum, 30 s, and
\* the arguments were accepted.
C25_Witness ==
  /\ Validated
  /\ validation.toolName = "browser_wait"
  /\ Arg("time", ANum(300)) \in Given
  /\ validation.outcome = Ok

\* C26: every descriptor of MCP_TOOLS has its registry key as its name, and every
\* field of its required list is one of the properties of its schema; stated of
\* the descriptor a caller looks up, for every key of the registry.
C26_RegistryConsistent ==
  \A k \in DOMAIN MCP_TOOLS :
    validation.toolName = k
      => /\ MCP_TOOLS[k].name = k
         /\ \A i \in 1..Len(MCP_TOOLS[k].inputSchema.required) :
              MCP_TOOLS[k].inputSchema.required[i]
                \in DOMAIN MCP_TOOLS[k].inputSchema.properties

\* C26 witness: the arguments of a tool with three required fields, looked up by
\* its key, were accepted.
C26_Witness ==
  /\ Validated
  /\ MCP_TOOLS[validation.toolName].name = validation.toolName
  /\ Len(ValidatedSchema.required) = 3
  /\ validation.outcome = Ok

\* C27: every tools/list request is answered with one result that lists each
\* tool of the registry, in the registry's order, with its name and its input
\* schema -- the same list whatever the session, the peer or the calls made
\* before -- and answering it changes neither the session nor the bridge.
ListedTools == [i \in 1..Len(ToolKeys) |->
                 [name |-> ToolKeys[i], inputSchema |-> MCP_TOOLS[ToolKeys[i]].inputSchema]]
sessionVars == <<mcpIsInitialized, clientInfo, extensionAvailable, mcpPendingRequests>>
peerVars ==
  <<readyState, listeners, closeCode, server, port, isInitialized, heartbeatInterval,
    pendingConnections, hsTimer, extensionSocket, activeExtensionId,
    registeredExtensions, extensionManifests, lastHeartbeat, requestId,
    pendingRequests, reqTimer, settleCount>>
\* A turn that wrote to no socket and settled no call.
PeerUntouched == wire = <<>> /\ settled = {}
C27_ToolsListStable ==
  /\ []((req.method = "tools/list" /\ req.id # 0)
          => /\ Len(out) = 1
             /\ out[1].kind = "result" /\ out[1].id = req.id
             /\ out[1].result.tools = ListedTools)
  /\ [][req'.method = "tools/list"
          => UNCHANGED <<sessionVars, peerVars>> /\ PeerUntouched']_vars
C27_Witness ==
  /\ req.method = "tools/list" /\ req.id = 2
  /\ Len(out) = 1 /\ out[1].result.tools = ListedTools
  /\ mcpPendingRequests = {}
  /\ extensionAvailable /\ \E id \in ReqIds : caller[id] = 1

\* C28: a request with an unknown method and an id is answered with exactly one
\* error response that carries the id and the code of JSON-RPC's "Method not
\* found" (-32601) and no result; an unknown method without an id is not
\* answered; neither changes the session or the bridge.
C28_UnknownMethod ==
  /\ []((req.method \in UnknownMethods /\ req.id # 0)
          => /\ Len(out) = 1
             /\ out[1].kind = "error" /\ out[1].id = req.id
             /\ out[1].result = RUndef
             /\ out[1].code = -32601)
  /\ []((req.method \in UnknownMethods /\ req.id = 0) => out = <<>>)
  /\ [][req'.method \in UnknownMethods
          => UNCHANGED <<sessionVars, peerVars>> /\ PeerUntouched']_vars

\* C29: a ping request is answered in the same turn with one result ({pong: true}
\* and the time), whether or not the session is initialized and whether or not
\* a peer is admitted; handling a ping writes to no socket, settles no call and
\* changes neither the bridge nor the session.
C29_PingAnswered ==
  /\ []((req.method = "ping" /\ req.id # 0)
          => /\ Len(out) = 1
             /\ out[1].kind = "result" /\ out[1].id = req.id
             /\ out[1].result.pong /\ out[1].result.timestamp = now)
  /\ [][req'.method = "ping"
          => UNCHANGED <<sessionVars, peerVars>> /\ PeerUntouched']_vars
C29_Witness ==
  /\ req.method = "ping" /\ req.id = 2
  /\ Len(out) = 1 /\ out[1].kind = "result" /\ out[1].result.pong
  /\ extensionSocket # NULL /\ readyState[extensionSocket] = "open"
  /\ pendingRequests # {}

\* C30: an initialize request always leaves the session initialized and is
\* answered with the protocol version, the capabilities and the server's
\* identity; the client identity it names replaces the previous one in the same
\* step, the 'client-connected' event carrying the previous one, so that one
\* identity at most is held; when the client's transport closes, the session is
\* over: no client identity is held and the session is not initialized.
C30_InitializeAndClose ==
  /\ []((req.method = "initialize" /\ req.id # 0)
          => /\ mcpIsInitialized
             /\ out = <<Response(req.id, InitializeResult)>>)
  /\ [][req'.method = "initialize"
          => /\ clientInfo' = req'.params
             /\ ClientConnected(clientInfo) \in Emitted']_vars
  /\ [][(stdinEnded' /\ ~stdinEnded)
          => /\ clientInfo' \notin ClientInfos
             /\ ~mcpIsInitialized'
             /\ "transport-closed" \in Emitted'
             /\ (clientInfo \in ClientInfos => "client-disconnected" \in Emitted')]_vars

\* C31 as stated: the bridge is shared by counting its consumers: taking an
\* initialized bridge into use leaves it as it is, and a consumer that lets go
\* of the bridge while others still hold it disconnects nothing: the peer socket
\* and the listener are torn down only by the last consumer.
C31_SharedByCount ==
  /\ [][(consumers' > consumers /\ isInitialized) => UNCHANGED peerVars]_vars
  /\ [][(consumers' < consumers /\ consumers' > 0)
          => /\ extensionSocket' = extensionSocket
             /\ pendingConnections' = pendingConnections
             /\ server' = server
             /\ heartbeatInterval' = heartbeatInterval]_vars

\* C31 as amended: the bridge counts no consumers: initialize() on an initialized
\* bridge leaves it as it is, and every disconnect(), whoever else still uses the
\* bridge, drops the admitted peer and the pending connections, stops the
\* heartbeat and closes the listener; once the listener has closed the bridge is
\* uninitialized and has rejected every pending call.
C31_EveryDisconnectTearsDown ==
  /\ [][(consumers' > consumers /\ isInitialized) => UNCHANGED peerVars]_vars
  /\ [][consumers' < consumers
          => /\ extensionSocket' = NULL
             /\ pendingConnections' = {}
             /\ ~heartbeatInterval'
             /\ server' \in {"closing", "null"}
             /\ \A s \in pendingConnections \cup ({extensionSocket} \ {NULL}) :
                  readyState'[s] # "open"]_vars
  /\ [][(discPc = "awaitServerClose" /\ discPc' = "idle")
          => server' = "null" /\ ~isInitialized' /\ pendingRequests' = {}]_vars
C31_Witness ==
  /\ consumers = 1
  /\ discPc = "awaitServerClose"
  /\ extensionSocket = NULL
  /\ pendingRequests # {}
  /\ \E s \in Sock : listeners[s] = "admitted" /\ readyState[s] \in {"closing", "closed"}

\* The sockets whose pending entry is gone (handshake timer fired, connection
\* rejected or bridge disconnected) while their pending handlers still listen.
Discarded ==
  {s \in Sock : /\ listeners[s] = "pending"
                /\ s \notin pendingConnections
                /\ readyState[s] \in {"open", "closing"}}

\* C32: a handshake processed for a connection whose pending entry is gone
\* changes nothing (neither the admitted peer nor the registry) and sends
\* nothing, be it valid or not; and a socket becomes the admitted peer only in a
\* step that starts with its pending entry present.
C32_LateHandshakeDiscarded ==
  /\ [](\A s \in Discarded, m \in Handshakes : processHandshake(Cur, s, m) = Cur)
  /\ [][\A s \in Discarded, m \in Handshakes :
          Commit(handlePendingMessage(Cur, s, m))
            => /\ UNCHANGED peerVars
               /\ wire' = <<>> /\ emitted' = <<>>]_vars
  /\ [][\A s \in Sock :
          (extensionSocket' = s /\ extensionSocket # s) => s \in pendingConnections]_vars
C32_Witness ==
  \E s \in Discarded :
    /\ readyState[s] = "closing" /\ closeCode[s] = PolicyViolation
    /\ ~hsTimer[s]
    /\ extensionSocket \notin {NULL, s} /\ activeExtensionId = "extA"
    /\ \E m \in Handshakes :
         /\ validateHandshake(m) = "" /\ m.extensionId.s = "extA"
         /\ processHandshake(Cur, s, m) = Cur

\* A pending connection comes to its end: its handshake timer fires, its socket
\* fails or closes, or it sends what gets it rejected.
PendingEnds(s) ==
  \/ HandshakeTimeout(s)
  \/ SocketError(s)
  \/ SocketClose(s)
  \/ \E m \in PendingInputs :
       /\ m.malformed \/ m.type # "handshake" \/ validateHandshake(m) # ""
       /\ PeerMessage(s, m)

\* C33: accepting a socket creates a pending entry under a connection id no other
\* entry has, arms its handshake timer and writes the challenge naming the
\* required handshake fields, the first and only message of that turn, touching
\* no other connection; and when a pending connection times out, is rejected or
\* closes, every other pending connection keeps its entry, its armed timer and
\* its socket, and the admitted peer is unchanged.
C33_PendingIndependent ==
  /\ [][\A s \in Sock :
          Connect(s)
          => /\ s \notin pendingConnections
             /\ pendingConnections' = pendingConnections \cup {s}
             /\ hsTimer' = [hsTimer EXCEPT ![s] = TRUE]
             /\ wire' = <<[to |-> s, type |-> "connection-challenge", rid |-> 0,
                           info |-> RequiredFields, state |-> "open"]>>
             /\ extensionSocket' = extensionSocket
             /\ activeExtensionId' = activeExtensionId
             /\ registeredExtensions' = registeredExtensions]_vars
  /\ [][\A s \in pendingConnections :
          PendingEnds(s)
          => /\ pendingConnections' = pendingConnections \ {s}
             /\ hsTimer' = [hsTimer EXCEPT ![s] = FALSE]
             /\ \A p \in Sock \ {s} : readyState'[p] = readyState[p]
             /\ extensionSocket' = extensionSocket
             /\ activeExtensionId' = activeExtensionId
             /\ registeredExtensions' = registeredExtensions
             /\ lastHeartbeat' = lastHeartbeat
             /\ pendingRequests' = pendingRequests]_vars
C33_Witness ==
  \E s, p \in Sock :
    /\ Sent(s, "connection-rejected")
    /\ readyState[s] = "closing" /\ s \notin pendingConnections /\ ~hsTimer[s]
    /\ p \in pendingConnections /\ hsTimer[p] /\ readyState[p] = "open"

\* What C34 asks of a handshake's fields.
NonEmptyString(v) == v.k = "string" /\ v.s # ""
NonNullObject(v) == v.k \in {"object", "array"}
WellFormed(m) ==
  /\ m.type = "handshake"
  /\ NonEmptyString(m.extensionId)
  /\ NonEmptyString(m.version)
  /\ NonNullObject(m.capabilities)

\* C34: a handshake on a pending connection is accepted exactly when its type is
\* 'handshake', its extensionId and its version are non-empty strings and its
\* capabilities are an object that is not null (an array counts as an object);
\* the accepted connection becomes the admitted peer, and a handshake failing
\* any of the conditions gets the connection rejected ('connection-rejected',
\* close with code 1008) and admits nothing.
C34_HandshakeValidation ==
  [][\A s \in pendingConnections :
       (Sent(s, "handshake-response")' \/ Sent(s, "connection-rejected")')
       => \A m \in AnyHandshakes :
       Commit(handlePendingMessage(Cur, s, m))
       => /\ validateHandshake(m) = "" <=> WellFormed(m)
          /\ WellFormed(m)
             => /\ extensionSocket' = s
                /\ activeExtensionId' = m.extensionId.s
                /\ listeners'[s] = "admitted"
                /\ Sent(s, "handshake-response")'
          /\ ~WellFormed(m)
             => /\ Sent(s, "connection-rejected")'
                /\ readyState'[s] = "closing" /\ closeCode'[s] = PolicyViolation
                /\ s \notin pendingConnections' /\ listeners'[s] # "admitted"
                /\ extensionSocket' = extensionSocket
                /\ activeExtensionId' = activeExtensionId
                /\ registeredExtensions' = registeredExtensions
                /\ emitted' = <<>>]_vars
C34_Witness ==
  \E s, p \in Sock :
    /\ extensionSocket = s /\ listeners[s] = "admitted"
    /\ \E m \in Written :
         /\ m.to = p /\ m.type = "connection-rejected"
         /\ m.info = "Handshake validation failed: Invalid capabilities object"
    /\ readyState[p] = "closing"

\* C35: a turn in which a pending connection is rejected (its handshake is
\* invalid, its handshake timer fires, it sends no JSON or no handshake, or its
\* socket fails) emits no event, so none of admission or loss, leaves the
\* protocol handler's extensionAvailable and its session as they are, settles
\* no call and sends nothing to the client.
C35_RejectionAbsorbed ==
  [][\A s \in pendingConnections :
       Sent(s, "connection-rejected")'
       => /\ emitted' = <<>>
          /\ extensionAvailable' = extensionAvailable
          /\ out' = <<>>
          /\ settled' = {}
          /\ UNCHANGED <<mcpIsInitialized, clientInfo, mcpPendingRequests, caller>>
          /\ extensionSocket' = extensionSocket]_vars
C35_Witness ==
  \E p \in Sock :
    /\ Sent(p, "connection-rejected") /\ readyState[p] = "closing"
    /\ extensionAvailable /\ extensionSocket # NULL
    /\ \E id \in ReqIds : caller[id] # 0
    /\ out = <<>> /\ emitted = <<>>

\* C36: a tool-response of the admitted peer that names a pending call settles
\* that call and no other, resolving it with the response's result or rejecting
\* it, whichever call was issued first; the client that awaits it is answered,
\* and every other pending call stays pending, unsettled, with its timer armed
\* and its caller waiting.
C36_ResponsesByRequestId ==
  [][settled' # {}
     => \A s \in Sock, m \in ToolResponses :
          (/\ s = extensionSocket
           /\ m.requestId \in pendingRequests
           /\ PeerMessage(s, m))
          => /\ settled' = {[id |-> m.requestId,
                             how |-> IF m.success THEN "resolved"
                                     ELSE "Tool execution failed"]}
             /\ pendingRequests' = pendingRequests \ {m.requestId}
             /\ ~reqTimer'[m.requestId]
             /\ caller[m.requestId] # 0
                => out' = <<IF m.success
                            THEN Response(caller[m.requestId], formatToolResult(m.result))
                            ELSE ErrorResponse(caller[m.requestId],
                                   "Tool execution failed: Tool execution failed")>>
             /\ \A id \in pendingRequests \ {m.requestId} :
                  /\ reqTimer'[id]
                  /\ settleCount'[id] = settleCount[id]
                  /\ caller'[id] = caller[id]]_vars
C36_Witness ==
  /\ pendingRequests = {1} /\ reqTimer[1] /\ settleCount[1] = 0 /\ caller[1] # 0
  /\ settled = {[id |-> 2, how |-> "resolved"]}
  /\ Len(out) = 1 /\ out[1].kind = "result" /\ out[1].id = 2

\* ---------------------------------------------------------------- C37
\* The request with this id was handed to the peer and waits for its outcome.
Awaiting(c) == \E r \in ReqIds : caller[r] = c

\* C37: every request of the client that carries an id gets exactly one
\* response with that id, a result or an error and never both, and gets it
\* only when its processing is complete: a request that has arrived is either
\* answered once, or it is a tools/call waiting for its delegated call, which is
\* pending with its timer armed, and it is answered in no other step than the
\* one that settles that call; a request that has not arrived has no response;
\* a message without an id produces no response.
C37_OneResponsePerRequest ==
  /\ [](\A c \in CallIds :
          /\ answered[c] <= 1
          /\ c >= nextCall => answered[c] = 0 /\ ~Awaiting(c)
          /\ c < nextCall => (answered[c] = 1) # Awaiting(c)
          /\ \A r \in ReqIds :
               caller[r] = c => r \in pendingRequests /\ reqTimer[r])
  /\ [](\A i \in 1..Len(out) :
          /\ out[i].id \in CallIds
          /\ \/ out[i].kind = "result" /\ out[i].error = "" /\ out[i].code = 0
             \/ out[i].kind = "error" /\ out[i].error # "" /\ out[i].result = RUndef)
  /\ [][/\ \A i \in 1..Len(out') :
             \/ out'[i].id = req'.id
             \/ \E r \in pendingRequests \ pendingRequests' :
                  /\ caller[r] = out'[i].id
                  /\ \E e \in settled' : e.id = r
        /\ \A c \in CallIds : answered'[c] > answered[c] =>
             \E i \in 1..Len(out') : out'[i].id = c
        /\ req'.method # "" /\ req'.id = 0 => out' = <<>>]_vars

\* Request 1, a tools/call, was delegated and is still waiting; meanwhile
\* request 2, which the server could not serve, was answered with an error in
\* its own turn.
C37_Witness ==
  /\ nextCall = 3
  /\ Awaiting(1) /\ answered[1] = 0
  /\ answered[2] = 1
  /\ Len(out) = 1 /\ out[1].id = 2 /\ out[1].kind = "error"
  /\ req.id = 2

\* ---------------------------------------------------------------- C38
\* No timer of the bridge is armed, no connection and no call is pending and
\* no peer is admitted.
Quiet ==
  /\ ~heartbeatInterval
  /\ pendingConnections = {} /\ \A s \in Sock : ~hsTimer[s]
  /\ pendingRequests = {} /\ \A id \in ReqIds : ~reqTimer[id]
  /\ extensionSocket = NULL

\* This step is the one in which a disconnect() returns.
DisconnectCompletes ==
  /\ discPc' = "idle"
  /\ \/ discPc = "awaitServerClose"
     \/ discPc = "idle" /\ server = "null" /\ Commit(disconnect(Cur))

C39_OnlyAdmittedSocketCounts ==
  [][\A s \in Sock :
       (/\ s # extensionSocket
        /\ s # extensionSocket'
        /\ \E m \in PendingInputs \cup AdmittedInputs : PeerMessage(s, m))
       => /\ settled' = {}
          /\ pendingRequests' = pendingRequests
          /\ lastHeartbeat' = lastHeartbeat]_vars

\* ---------------------------------------------------------------- C40
\* getStatus(): what the bridge reports of its peer.
getStatus ==
  [initialized |-> isInitialized,
   extensionConnected |-> extensionSocket # NULL,
   pendingConnections |-> Cardinality(pendingConnections),
   pendingRequests |-> Cardinality(pendingRequests),
   registeredExtensions |-> registeredExtensions,
   activeExtension |-> activeExtensionId,
   lastHeartbeat |-> lastHeartbeat]

\* waitForExtensionConnection(): the ids it can return without waiting, which
\* is the first of registeredExtensions when there is one.
waitForExtensionConnection == registeredExtensions

\* C40: in every reachable state extensionSocket is non-null exactly when
\* activeExtensionId is, registeredExtensions holds the active id and nothing
\* else, getStatus without a connected peer reports no active and no registered
\* extension, and waitForExtensionConnection returns only the connected peer.
C40_PeerBookkeepingConsistent ==
  /\ (extensionSocket # NULL) <=> (activeExtensionId # NoId)
  /\ registeredExtensions
       = (IF activeExtensionId # NoId THEN {activeExtensionId} ELSE {})
  /\ ~getStatus.extensionConnected
       => getStatus.activeExtension = NoId /\ getStatus.registeredExtensions = {}
  /\ \A e \in waitForExtensionConnection :
       extensionSocket # NULL /\ e = activeExtensionId

====
